---------------------------- MODULE Spec2Model ----------------------------
(***************************************************************************)
(* State-machine model of the molpha oracle program                        *)
(* (programs/molpha): the node registry, the protocol configuration, one   *)
(* feed account with its subscription, and the instructions that mutate    *)
(* them.  Every instruction is one atomic action: a Solana transaction     *)
(* either commits every account change or none, so a rejected instruction  *)
(* leaves every account as it was and only records its outcome in `last`.  *)
(***************************************************************************)
EXTENDS Integers, Sequences, FiniteSets, TLC

(***************************************************************************)
(* Program constants.                                                      *)
(***************************************************************************)
MAX_NODES == 256

MAX_HISTORY == 20

SCALAR == 1000000

MIN_DURATION == 86400

(***************************************************************************)
(* Bounds of the exploration.                                              *)
(***************************************************************************)
\* node identities offered to add_node / remove_node are 0..MaxNodeId
\* (0 is Pubkey::default()); attestations may also be signed by
\* MaxNodeId + 1, an identity that is never a registry member
MaxNodeId == 3

\* one-second clock steps taken within a day
MaxTicks == 1

\* whole-day clock steps
MaxDays == 1

\* instructions placed before publish_answer in its transaction
MaxBatch == 3

\* largest priority-fee budget bought by create_feed / extend_subscription
MaxBudget == 2

\* largest amount of one top_up
MaxTopUp == 1

\* largest feed balance up to which top_up is explored
MaxBalance == 10

\* accepted publishes explored by the ring-buffer specification beyond
\* MAX_HISTORY
ExtraPublishes == 2

(***************************************************************************)
(* Identities.                                                             *)
(***************************************************************************)
Admin == "admin"
Owner == "owner"
Stranger == "stranger"

ZeroPubkey == 0

VARIABLES
    now,            \* Clock::get()?.unix_timestamp
    nodes,          \* NodeRegistry.nodes : Vec<Pubkey>
    nodeAccounts,   \* the Node PDAs that exist, keyed by node_pubkey
    config,         \* ProtocolConfig
    dataSource,     \* the DataSource PDA of the data source id in use
    ethLinks,       \* the EthLink accounts that exist, with their PDA seeds
    feed,           \* the Feed account
    last            \* outcome of the last instruction

vars == <<now, nodes, nodeAccounts, config, dataSource, ethLinks, feed, last>>

(***************************************************************************)
(* Helpers.                                                                *)
(***************************************************************************)
Range(s) == {s[i] : i \in 1..Len(s)}

Contains(s, x) == \E i \in 1..Len(s) : s[i] = x

NoAnswer == [value |-> 0, timestamp |-> 0]

\* the record every instruction leaves in `last`
Outcome(op, err, key, answer, batch, count, fee) ==
    [op |-> op, err |-> err, key |-> key, answer |-> answer,
     batch |-> batch, count |-> count, fee |-> fee]

RegistryOutcome(op, caller, err, pk) ==
    Outcome(op, err, [caller |-> caller, pk |-> pk], NoAnswer, <<>>, 0, 0)

(***************************************************************************)
(* Node registry: add_node / remove_node.                                  *)
(***************************************************************************)
RegistryAuthority == Admin

\* Vec::retain(|&x| x != node_pubkey)
Retain(s, pk) == SelectSeq(s, LAMBDA x : x # pk)

\* the outcome of `init` when the Node PDA of a key were never found to exist
NodeInitNeverFails(pk) == FALSE

\* AddNode accounts: `init` of the Node PDA seeded by node_pubkey fails when
\* that account already exists
NodeInitFails(pk) == pk \in nodeAccounts

\* the first check of add_node that rejects, "Ok" when none does
AddNodeError(caller, pk) ==
    IF NodeInitFails(pk) THEN "AccountAlreadyInUse"
    ELSE IF caller # RegistryAuthority THEN "ConstraintHasOne"
    ELSE IF pk = ZeroPubkey THEN "ZeroPubkey"
    ELSE IF ~(Len(nodes) < MAX_NODES) THEN "MaxNodesReached"
    ELSE "Ok"

add_node(caller, pk) ==
    LET err == AddNodeError(caller, pk) IN
    /\ last' = RegistryOutcome("add_node", caller, err, pk)
    /\ IF err = "Ok"
       THEN /\ nodes' = Append(nodes, pk)
            /\ nodeAccounts' = nodeAccounts \cup {pk}
       ELSE UNCHANGED <<nodes, nodeAccounts>>
    /\ UNCHANGED <<now, config, dataSource, ethLinks, feed>>

\* remove_node without the has_one = authority constraint on the registry
RemoveNodeErrorAnyCaller(caller, pk) ==
    IF pk \notin nodeAccounts THEN "AccountNotInitialized"
    ELSE IF ~(Len(nodes) > Len(Retain(nodes, pk))) THEN "NodeNotFound"
    ELSE "Ok"

\* the first check of remove_node that rejects, "Ok" when none does
RemoveNodeError(caller, pk) ==
    IF pk \notin nodeAccounts THEN "AccountNotInitialized"
    ELSE IF caller # RegistryAuthority THEN "ConstraintHasOne"
    ELSE IF ~(Len(nodes) > Len(Retain(nodes, pk))) THEN "NodeNotFound"
    ELSE "Ok"

remove_node(caller, pk) ==
    LET err == RemoveNodeError(caller, pk) IN
    /\ last' = RegistryOutcome("remove_node", caller, err, pk)
    /\ IF err = "Ok"
       THEN /\ nodes' = Retain(nodes, pk)
            /\ nodeAccounts' = nodeAccounts \ {pk}
       ELSE UNCHANGED <<nodes, nodeAccounts>>
    /\ UNCHANGED <<now, config, dataSource, ethLinks, feed>>


(***************************************************************************)
(* Pricing (utils/pricing.rs).  A fallible computation returns             *)
(* [err, value]; err = "Ok" carries the value.                             *)
(***************************************************************************)
Val(v) == [err |-> "Ok", value |-> v]

Fail(e) == [err |-> e, value |-> 0]

\* floor(a * b / c), evaluated without forming the product a * b
MulDiv(a, b, c) ==
    LET q  == a \div c
        r  == a % c
        q2 == b \div c
        r2 == b % c
    IN  q * b + r * q2 + ((r * r2) \div c)

\* largest v with v * SCALAR * SCALAR <= u64::MAX: the checked_mul chain of
\* calculate_price_per_second_scaled fails above it
MaxScaledProduct == 18446744

\* a power function that is exact where the exponent numerator /
\* denominator is a whole number up to 3
precise_pow_exact(base, numerator, denominator, scalar) ==
    IF numerator % denominator = 0 /\ numerator \div denominator <= 3
    THEN Val(CASE numerator \div denominator = 0 -> 1
               [] numerator \div denominator = 1 -> base
               [] numerator \div denominator = 2 -> base * base
               [] numerator \div denominator = 3 -> base * base * base)
    ELSE LET exponent_scaled == MulDiv(numerator, scalar, denominator) IN
         IF exponent_scaled <= scalar THEN Val(base)
         ELSE Val(base * (exponent_scaled \div scalar))

\* precise_pow(base, numerator, denominator, scalar)
precise_pow(base, numerator, denominator, scalar) ==
    IF numerator = denominator THEN Val(base)
    ELSE LET exponent_scaled == MulDiv(numerator, scalar, denominator) IN
         IF exponent_scaled <= scalar THEN Val(base)
         ELSE Val(base * (exponent_scaled \div scalar))

\* A u64 too wide for one machine integer of the checker is held as three
\* digits in base SCALAR, <<d2, d1, d0>> = d2 * SCALAR^2 + d1 * SCALAR + d0,
\* with d1, d0 < SCALAR.
WNorm(w) ==
    LET c0 == w[3] \div SCALAR
        c1 == (w[2] + c0) \div SCALAR
    IN  <<w[1] + c1, (w[2] + c0) % SCALAR, w[3] % SCALAR>>

\* w * k
WMul(w, k) == WNorm(<<w[1] * k, w[2] * k, w[3] * k>>)

\* floor(w / SCALAR)
WDivScalar(w) == <<w[1] \div SCALAR, w[1] % SCALAR, w[2]>>

\* the value of w as one integer
WToInt(w) == (w[1] * SCALAR + w[2]) * SCALAR + w[3]

\* u64::MAX = 18446744 073709 551615
U64Max == <<MaxScaledProduct, 73709, 551615>>

\* w > u64::MAX: checked_mul returns None
WOverflows(w) ==
    \/ w[1] > U64Max[1]
    \/ w[1] = U64Max[1] /\ w[2] > U64Max[2]
    \/ w[1] = U64Max[1] /\ w[2] = U64Max[2] /\ w[3] > U64Max[3]

\* config.base_price_per_second_scaled: base_price_units counts units of
\* SCALAR * SCALAR, base_price_milli units of SCALAR, base_price_micro units
BasePrice(cfg) ==
    <<cfg.base_price_units, cfg.base_price_milli, cfg.base_price_micro>>

\* calculate_price_per_second_scaled(feed, config):
\* base.checked_mul(ff).checked_mul(sf).checked_div(SCALAR)
\*     .checked_div(SCALAR), then checked_mul(buffer).checked_div(100)
calculate_price_per_second_scaled(f, cfg) ==
    IF f.frequency = 0 THEN Fail("Panic")
    ELSE
    LET updates_per_day  == 86400 \div f.frequency
        frequency_factor == precise_pow(updates_per_day,
                                cfg.frequency_coefficient, 10000, SCALAR)
        signers_factor   == precise_pow(f.min_signatures_threshold,
                                cfg.signers_coefficient, 10000, SCALAR)
        by_frequency == WMul(BasePrice(cfg), frequency_factor.value)
        product      == WMul(by_frequency, signers_factor.value)
        base_price   == WToInt(WDivScalar(WDivScalar(product)))
    IN  IF WOverflows(by_frequency) \/ WOverflows(product)
        THEN Fail("ArithmeticError")
        ELSE Val((base_price * cfg.priority_fee_buffer_percentage) \div 100)

\* estimate_compute_units(node_count, history_length)
estimate_compute_units(node_count, history_length) ==
    LET base_units      == 5000
        signature_units == node_count * 1000
        history_units   == IF history_length < MAX_HISTORY THEN 500 ELSE 200
    IN  base_units + signature_units + history_units

(***************************************************************************)
(* The instructions that precede publish_answer in its transaction.        *)
(*   ed25519 attestation : [program, count, in_bounds, signer, message]    *)
(*   compute budget      : [program, tag, price_hi, price_lo]              *)
(* price_hi / price_lo are the upper and lower 32 bits of the declared     *)
(* u64 micro-lamport price.                                                *)
(***************************************************************************)
Ed25519Ix(count, in_bounds, signer, message) ==
    [program |-> "ed25519", count |-> count, in_bounds |-> in_bounds,
     signer |-> signer, message |-> message]

Attest(signer, message) == Ed25519Ix(1, TRUE, signer, message)

ComputeBudgetIx(tag, hi, lo) ==
    [program |-> "compute_budget", tag |-> tag, price_hi |-> hi,
     price_lo |-> lo]

\* parse_ed25519_instruction: Err unless data[0] = 1 and the offsets are in
\* bounds; otherwise the (signer, message) found at the declared offsets
parse_ed25519_instruction(ix) ==
    IF ix.count # 1 \/ ~ix.in_bounds
    THEN [ok |-> FALSE, signer |-> ZeroPubkey, message |-> 0]
    ELSE [ok |-> TRUE, signer |-> ix.signer, message |-> ix.message]

\* parse_compute_unit_price: SetComputeUnitPrice (tag 3), `as u32`
parse_compute_unit_price(ix) ==
    IF ix.tag = 3 THEN [ok |-> TRUE, price |-> ix.price_lo]
    ELSE [ok |-> FALSE, price |-> 0]

\* calculate_priority_fee_from_instructions: the first compute-budget
\* instruction that parses decides the fee; none gives 0
RECURSIVE calculate_priority_fee_from_instructions(_, _)
calculate_priority_fee_from_instructions(batch, estimated_compute_units) ==
    IF batch = <<>> THEN 0
    ELSE LET ix == Head(batch) IN
         IF ix.program = "compute_budget" /\ parse_compute_unit_price(ix).ok
         THEN (parse_compute_unit_price(ix).price * estimated_compute_units)
                  \div 1000000
         ELSE calculate_priority_fee_from_instructions(Tail(batch),
                  estimated_compute_units)

\* a scan step that counts a signer again each time it attests
ScanStepCountingRepeats(unique_valid_signers, ix, registry, message) ==
    IF ix.program = "ed25519"
    THEN LET p == parse_ed25519_instruction(ix) IN
         IF p.ok /\ p.message = message /\ Contains(registry, p.signer)
         THEN Append(unique_valid_signers, p.signer)
         ELSE unique_valid_signers
    ELSE unique_valid_signers

\* one step of the signer scan of publish_answer on instruction ix
ScanStep(unique_valid_signers, ix, registry, message) ==
    IF ix.program = "ed25519"
    THEN LET p == parse_ed25519_instruction(ix) IN
         IF /\ p.ok
            /\ p.message = message
            /\ Contains(registry, p.signer)
            /\ ~Contains(unique_valid_signers, p.signer)
         THEN Append(unique_valid_signers, p.signer)
         ELSE unique_valid_signers
    ELSE unique_valid_signers

\* for i in (0..current_instruction_index).rev(): the scan runs from the
\* instruction just before publish_answer back to the first one
RECURSIVE ScanFrom(_, _, _, _, _)
ScanFrom(batch, i, acc, registry, message) ==
    IF i = 0 THEN acc
    ELSE ScanFrom(batch, i - 1, ScanStep(acc, batch[i], registry, message),
                  registry, message)

UniqueValidSigners(batch, registry, message) ==
    ScanFrom(batch, Len(batch), <<>>, registry, message)

(***************************************************************************)
(* The Feed account (state/feed.rs).                                       *)
(***************************************************************************)
\* Feed::default(), before create_feed has initialised the account.
\* `address` holds the seed values the account address was derived from.
NoFeed ==
    [created |-> FALSE, authority |-> "", feed_type |-> "Public",
     min_signatures_threshold |-> 0, frequency |-> 0, ipfs_cid |-> "",
     job_id |-> 0,
     address |-> [min_signatures_threshold |-> 0, frequency |-> 0,
                  job_id |-> 0],
     balance |-> 0, latest_answer |-> NoAnswer, answer_history |-> <<>>,
     history_idx |-> 0, subscription_due_time |-> 0,
     price_per_second_scaled |-> 0, priority_fee_allowance |-> 0,
     consumed_priority_fees |-> 0, created_at |-> 0]

\* the seeds of the Feed PDA that vary (name, authority and feed_type never
\* change after creation)
FeedSeeds(f) ==
    [min_signatures_threshold |-> f.min_signatures_threshold,
     frequency |-> f.frequency, job_id |-> f.job_id]

\* Feed::is_subscription_active
is_subscription_active(f, current_time) ==
    f.subscription_due_time > current_time

\* Feed::has_priority_fee_budget
has_priority_fee_budget(f, required_fee) ==
    f.consumed_priority_fees + required_fee <= f.priority_fee_allowance

(***************************************************************************)
(* publish_answer (instructions/publish_answer.rs).                        *)
(***************************************************************************)
PublishFee(batch) ==
    calculate_priority_fee_from_instructions(batch,
        estimate_compute_units(Len(nodes), Len(feed.answer_history)))

PublishSigners(answer, batch) ==
    UniqueValidSigners(batch, nodes, answer.value)

\* the ring-buffer write of publish_answer faults when the vector is full
\* and history_idx is not one of its indices
HistoryWriteFaults(f) ==
    /\ ~(Len(f.answer_history) < MAX_HISTORY)
    /\ ~(f.history_idx < Len(f.answer_history))

\* the first check of publish_answer that rejects, "Ok" when none does:
\* the account constraints of PublishAnswer, then the handler's checks in
\* their order
PublishError(answer, batch) ==
    IF ~feed.created THEN "AccountNotInitialized"
    ELSE IF FeedSeeds(feed) # feed.address THEN "ConstraintSeeds"
    ELSE IF ~is_subscription_active(feed, now) THEN "SubscriptionExpired"
    ELSE IF ~(answer.timestamp > feed.latest_answer.timestamp)
         THEN "PastTimestamp"
    ELSE IF ~(answer.timestamp <= now) THEN "FutureTimestamp"
    ELSE IF ~has_priority_fee_budget(feed, PublishFee(batch))
         THEN "InsufficientPriorityFeeBudget"
    ELSE IF ~(Len(PublishSigners(answer, batch))
                  >= feed.min_signatures_threshold)
         THEN "NotEnoughSignatures"
    ELSE IF ~(feed.balance >= PublishFee(batch)) THEN "InsufficientBalance"
    ELSE IF HistoryWriteFaults(feed) THEN "Panic"
    ELSE "Ok"

\* the ring buffer write
HistoryAfter(f, answer) ==
    IF Len(f.answer_history) < MAX_HISTORY
    THEN [f EXCEPT !.answer_history = Append(@, answer),
                   !.history_idx = Len(f.answer_history) + 1]
    ELSE [f EXCEPT !.answer_history[f.history_idx + 1] = answer,
                   !.history_idx = (f.history_idx + 1) % MAX_HISTORY]

\* an accepted publish that charges nothing to the balance
PublishedFeedKeepingBalance(f, answer, priority_fee) ==
    HistoryAfter([f EXCEPT !.consumed_priority_fees = @ + priority_fee,
                           !.latest_answer = answer],
                 answer)

\* the Feed after an accepted publish
PublishedFeed(f, answer, priority_fee) ==
    HistoryAfter([f EXCEPT !.balance = @ - priority_fee,
                           !.consumed_priority_fees = @ + priority_fee,
                           !.latest_answer = answer],
                 answer)

publish_answer(answer, batch) ==
    LET err == PublishError(answer, batch)
        fee == PublishFee(batch)
        cnt == Len(PublishSigners(answer, batch))
    IN
    /\ last' = Outcome("publish_answer", err, 0, answer, batch, cnt, fee)
    /\ feed' = IF err = "Ok" THEN PublishedFeed(feed, answer, fee) ELSE feed
    /\ UNCHANGED <<now, nodes, nodeAccounts, config, dataSource, ethLinks>>

(***************************************************************************)
(* create_feed (instructions/create_feed.rs).                              *)
(***************************************************************************)
FeedOutcome(op, err, key) == Outcome(op, err, key, NoAnswer, <<>>, 0, 0)

\* the DataSource account as init_if_needed allocates it, zero-filled:
\* is_public is false and DataSourceType defaults to Private
NoDataSource ==
    [created_at |-> 0, owner_eth |-> "", data_source_type |-> "Private"]

\* the EthLink accounts at the PDA of the seeds <<owner_eth, grantee>>
EthLinkAt(owner_eth, grantee) ==
    {l \in ethLinks : l.pda = <<owner_eth, grantee>>}

\* the EthLink account init_if_needed creates: allocated at the PDA, every
\* field zero
ZeroEthLink(owner_eth, grantee) ==
    [pda |-> <<owner_eth, grantee>>, owner_eth |-> "", grantee |-> "",
     created_at |-> 0]

\* a data source that create_feed fills again on every call
DataSourceAfterCreateFeedOverwriting(info) ==
    [created_at |-> now, owner_eth |-> info.owner_eth,
     data_source_type |-> info.data_source_type]

\* the DataSource account after a successful create_feed: filled when it
\* was not yet (created_at == 0), left alone otherwise
DataSourceAfterCreateFeed(info) ==
    IF dataSource.created_at = 0
    THEN [created_at |-> now, owner_eth |-> info.owner_eth,
          data_source_type |-> info.data_source_type]
    ELSE dataSource

\* the DataSource account create_feed is handed: the one stored under
\* params.data_source_id, or a fresh default account under any other id
DataSourceAccount(id_matches) ==
    IF id_matches THEN dataSource ELSE NoDataSource

\* Due times a wrapped u64 computation can leave lie near +-2^63; the model
\* holds them as these two representatives, beyond every clock value.
FarFuture == 2000 * SCALAR

FarPast == 0 - FarFuture

IsFar(t) == t >= FarFuture \/ t <= FarPast

\* whether the program is built with integer-overflow checks (an overflowing
\* +, - or * traps) or without them (it wraps modulo 2^64)
Builds == {"checked", "wrapping"}

\* a duration of 2^63 seconds, held by a representative beyond every other
\* duration
HugeDuration == FarFuture

\* price * duration exceeds u64::MAX
CostOverflows(price, duration) == duration = HugeDuration /\ price >= 2

\* (price * duration) / SCALAR in u64 arithmetic modulo 2^64:
\* price * 2^63 mod 2^64 = (price mod 2) * 2^63.  (Defined for the even
\* prices when the duration is HugeDuration.)
WrappedCost(price, duration) ==
    IF duration # HugeDuration THEN (price * duration) \div SCALAR
    ELSE CASE price % 2 = 0 -> 0

\* base + duration as i64: 2^63 as i64 is -2^63.  (Defined for bases that
\* are not themselves representatives.)
SubscriptionDue(base, duration) ==
    IF duration = HugeDuration THEN FarPast ELSE base + duration

\* a priority-fee budget of u64::MAX = 2^64 - 1, held by a representative
\* beyond every other amount
HugeBudget == FarFuture

\* cost + budget exceeds u64::MAX
SumOverflows(cost, budget) == budget = HugeBudget /\ cost >= 1

\* cost + budget in u64 arithmetic modulo 2^64:
\* cost + (2^64 - 1) mod 2^64 = cost - 1 for cost >= 1
WrappedSum(cost, budget) ==
    IF SumOverflows(cost, budget) THEN cost - 1 ELSE cost + budget

\* the feed fields create_feed assigns before it prices the subscription
FeedWithParams(caller, params) ==
    [NoFeed EXCEPT !.created = TRUE,
                   !.authority = caller,
                   !.feed_type = params.feed_type,
                   !.min_signatures_threshold = params.min_signatures_threshold,
                   !.frequency = params.frequency,
                   !.ipfs_cid = params.ipfs_cid,
                   !.job_id = params.job_id,
                   !.address = FeedSeeds(params),
                   !.created_at = now]

CreateFeedPrice(caller, params) ==
    calculate_price_per_second_scaled(FeedWithParams(caller, params), config)

\* create_feed without the check of the subscription duration
CreateFeedErrorAnyDuration(caller, params, info, id_matches, eth_link_passed, duration, transfer_ok) ==
    IF feed.created THEN "AccountAlreadyInUse"
    ELSE IF ~(params.min_signatures_threshold > 0) THEN "InvalidFeedConfig"
    ELSE IF params.ipfs_cid = "" THEN "InvalidFeedConfig"
    ELSE IF /\ DataSourceAccount(id_matches).data_source_type = "Private"
            /\ ~eth_link_passed
         THEN "InvalidDataSource"
    ELSE IF ~id_matches THEN "InvalidDataSource"
    ELSE IF info.recovered # info.owner_eth THEN "RecoveredAddressMismatch"
    ELSE IF CreateFeedPrice(caller, params).err # "Ok"
         THEN CreateFeedPrice(caller, params).err
    ELSE IF ~transfer_ok THEN "InsufficientFunds"
    ELSE "Ok"

\* create_feed without the check of the threshold
CreateFeedErrorAnyThreshold(caller, params, info, id_matches, eth_link_passed, duration, transfer_ok) ==
    IF feed.created THEN "AccountAlreadyInUse"
    ELSE IF params.ipfs_cid = "" THEN "InvalidFeedConfig"
    ELSE IF ~(duration >= MIN_DURATION) THEN "MinimumSubscriptionTime"
    ELSE IF /\ DataSourceAccount(id_matches).data_source_type = "Private"
            /\ ~eth_link_passed
         THEN "InvalidDataSource"
    ELSE IF ~id_matches THEN "InvalidDataSource"
    ELSE IF info.recovered # info.owner_eth THEN "RecoveredAddressMismatch"
    ELSE IF CreateFeedPrice(caller, params).err # "Ok"
         THEN CreateFeedPrice(caller, params).err
    ELSE IF ~transfer_ok THEN "InsufficientFunds"
    ELSE "Ok"

\* the first check of create_feed that rejects, "Ok" when none does.
\* info.recovered is the address secp256k1 recovery yields from info.sig.
CreateFeedError(caller, params, info, id_matches, eth_link_passed, duration, transfer_ok) ==
    IF feed.created THEN "AccountAlreadyInUse"
    ELSE IF ~(params.min_signatures_threshold > 0) THEN "InvalidFeedConfig"
    ELSE IF params.ipfs_cid = "" THEN "InvalidFeedConfig"
    ELSE IF ~(duration >= MIN_DURATION) THEN "MinimumSubscriptionTime"
    ELSE IF /\ DataSourceAccount(id_matches).data_source_type = "Private"
            /\ ~eth_link_passed
         THEN "InvalidDataSource"
    ELSE IF ~id_matches THEN "InvalidDataSource"
    ELSE IF info.recovered # info.owner_eth THEN "RecoveredAddressMismatch"
    ELSE IF CreateFeedPrice(caller, params).err # "Ok"
         THEN CreateFeedPrice(caller, params).err
    ELSE IF ~transfer_ok THEN "InsufficientFunds"
    ELSE "Ok"

\* a created feed whose balance holds the subscription cost without the
\* priority-fee budget
CreatedFeedWithoutBudget(caller, params, duration, priority_fee_budget) ==
    LET price == CreateFeedPrice(caller, params).value
        base_subscription_cost == (price * duration) \div SCALAR
    IN  [FeedWithParams(caller, params) EXCEPT
            !.subscription_due_time = now + duration,
            !.price_per_second_scaled = price,
            !.priority_fee_allowance = priority_fee_budget,
            !.consumed_priority_fees = 0,
            !.balance = base_subscription_cost]

CreatedFeed(caller, params, duration, priority_fee_budget) ==
    LET price == CreateFeedPrice(caller, params).value
        base_subscription_cost == WrappedCost(price, duration)
        total_cost == WrappedSum(base_subscription_cost, priority_fee_budget)
    IN  [FeedWithParams(caller, params) EXCEPT
            !.subscription_due_time = SubscriptionDue(now, duration),
            !.price_per_second_scaled = price,
            !.priority_fee_allowance = priority_fee_budget,
            !.consumed_priority_fees = 0,
            !.balance = total_cost]

\* price * duration or cost + budget exceeds u64::MAX in create_feed
CreateFeedOverflows(caller, params, duration, priority_fee_budget) ==
    \/ CostOverflows(CreateFeedPrice(caller, params).value, duration)
    \/ SumOverflows(WrappedCost(CreateFeedPrice(caller, params).value,
                                duration),
                    priority_fee_budget)

\* The checks of CreateFeedError up to the price come first, then the
\* unchecked product price * duration and the unchecked sum cost + budget,
\* which trap in a build that checks integer overflow, then the transfer.
create_feed(caller, params, info, id_matches, eth_link_passed, duration, priority_fee_budget, transfer_ok) ==
    \E build \in IF CreateFeedOverflows(caller, params, duration,
                                        priority_fee_budget)
                 THEN Builds ELSE {"checked"} :
    LET before_cost == CreateFeedError(caller, params, info, id_matches,
                                       eth_link_passed, duration, TRUE)
        err == IF before_cost # "Ok" THEN before_cost
               ELSE IF build = "checked"
                       /\ CreateFeedOverflows(caller, params, duration,
                                              priority_fee_budget)
                    THEN "Panic"
               ELSE CreateFeedError(caller, params, info, id_matches,
                                    eth_link_passed, duration, transfer_ok)
    IN
    /\ last' = FeedOutcome("create_feed", err,
                           [caller |-> caller, params |-> params,
                            info |-> info,
                            id_matches |-> id_matches,
                            eth_link_passed |-> eth_link_passed,
                            duration |-> duration,
                            budget |-> priority_fee_budget])
    /\ IF err = "Ok"
       THEN /\ feed' = CreatedFeed(caller, params, duration,
                                   priority_fee_budget)
            /\ dataSource' = DataSourceAfterCreateFeed(info)
            /\ ethLinks' =
                   IF eth_link_passed /\ EthLinkAt(info.owner_eth, caller) = {}
                   THEN ethLinks \cup {ZeroEthLink(info.owner_eth, caller)}
                   ELSE ethLinks
       ELSE UNCHANGED <<feed, dataSource, ethLinks>>
    /\ UNCHANGED <<now, nodes, nodeAccounts, config>>

(***************************************************************************)
(* extend_subscription (instructions/extend_subscription.rs).              *)
(***************************************************************************)
\* extend_subscription without the check of the additional duration
ExtendErrorAnyDuration(caller, additional_duration_seconds, transfer_ok) ==
    IF ~feed.created THEN "AccountNotInitialized"
    ELSE IF caller # feed.authority THEN "ConstraintHasOne"
    ELSE IF ~transfer_ok THEN "InsufficientFunds"
    ELSE "Ok"

ExtendError(caller, additional_duration_seconds, transfer_ok) ==
    IF ~feed.created THEN "AccountNotInitialized"
    ELSE IF caller # feed.authority THEN "ConstraintHasOne"
    ELSE IF ~(additional_duration_seconds >= MIN_DURATION)
         THEN "MinimumExtensionTime"
    ELSE IF ~transfer_ok THEN "InsufficientFunds"
    ELSE "Ok"

\* an extension that always restarts the subscription from the clock
ExtendedFeedFromNow(f, d, b) ==
    LET base_extension_cost == (f.price_per_second_scaled * d) \div SCALAR
        total_extension_cost == base_extension_cost + b
    IN  [f EXCEPT !.subscription_due_time = now + d,
                  !.priority_fee_allowance = @ + b,
                  !.balance = @ + total_extension_cost]

\* an extension that adds the budget to the allowance but not to the balance
ExtendedFeedUnfunded(f, d, b) ==
    LET new_due_datetime ==
            IF f.subscription_due_time > now
            THEN f.subscription_due_time + d
            ELSE now + d
        base_extension_cost == (f.price_per_second_scaled * d) \div SCALAR
    IN  [f EXCEPT !.subscription_due_time = new_due_datetime,
                  !.priority_fee_allowance = @ + b,
                  !.balance = @ + base_extension_cost]

ExtendedFeed(f, d, b) ==
    LET new_due_datetime ==
            IF f.subscription_due_time > now
            THEN SubscriptionDue(f.subscription_due_time, d)
            ELSE SubscriptionDue(now, d)
        base_extension_cost == WrappedCost(f.price_per_second_scaled, d)
        total_extension_cost == base_extension_cost + b
    IN  [f EXCEPT !.subscription_due_time = new_due_datetime,
                  !.priority_fee_allowance = @ + b,
                  !.balance = @ + total_extension_cost]

\* a failed transfer that leaves behind the due time and the allowance
\* assigned before it
FeedAfterExtendKeepingWrites(err, f, d, b) ==
    IF err = "Ok" THEN ExtendedFeed(f, d, b)
    ELSE IF err = "InsufficientFunds"
    THEN [f EXCEPT !.subscription_due_time =
                       ExtendedFeed(f, d, b).subscription_due_time,
                   !.priority_fee_allowance = @ + b]
    ELSE f

\* the feed account after the instruction: a failed instruction is rolled
\* back by the runtime, whatever it had assigned
FeedAfterExtend(err, f, d, b) ==
    IF err = "Ok" THEN ExtendedFeed(f, d, b) ELSE f

\* The duration check comes first, then the unchecked product
\* price * duration, then the transfer.
extend_subscription(caller, additional_duration_seconds, additional_priority_fee_budget, transfer_ok) ==
    \E build \in IF CostOverflows(feed.price_per_second_scaled,
                                  additional_duration_seconds)
                 THEN Builds ELSE {"checked"} :
    LET before_cost == ExtendError(caller, additional_duration_seconds,
                                   TRUE)
        err == IF before_cost # "Ok" THEN before_cost
               ELSE IF build = "checked"
                       /\ CostOverflows(feed.price_per_second_scaled,
                                        additional_duration_seconds)
                    THEN "Panic"
               ELSE ExtendError(caller, additional_duration_seconds,
                                transfer_ok)
    IN
    /\ last' = FeedOutcome("extend_subscription", err,
                           [caller |-> caller,
                            duration |-> additional_duration_seconds,
                            budget |-> additional_priority_fee_budget,
                            funded |-> transfer_ok])
    /\ feed' = FeedAfterExtend(err, feed, additional_duration_seconds,
                               additional_priority_fee_budget)
    /\ UNCHANGED <<now, nodes, nodeAccounts, config, dataSource, ethLinks>>

(***************************************************************************)
(* top_up (instructions/top_up.rs).                                        *)
(***************************************************************************)
TopUpError(caller, transfer_ok) ==
    IF ~feed.created THEN "AccountNotInitialized"
    ELSE IF caller # feed.authority THEN "ConstraintHasOne"
    ELSE IF ~transfer_ok THEN "InsufficientFunds"
    ELSE "Ok"

top_up(caller, amount, transfer_ok) ==
    LET err == TopUpError(caller, transfer_ok) IN
    /\ last' = FeedOutcome("top_up", err, amount)
    /\ feed' = IF err = "Ok" THEN [feed EXCEPT !.balance = @ + amount]
               ELSE feed
    /\ UNCHANGED <<now, nodes, nodeAccounts, config, dataSource, ethLinks>>

(***************************************************************************)
(* update_feed_config (instructions/update_feed_config.rs).                *)
(***************************************************************************)
\* a new due time that is the old one, whatever the prices
UpdatedDueUnscaled(f, price, build) ==
    IF price = 0 THEN Fail("Panic") ELSE Val(f.subscription_due_time)

\* new_due_time of update_feed_config:
\*   time_left    = due as u64 - now as u64
\*   new_due_time = now as u64 + (time_left * old_price) / price
\* With due < now the subtraction traps in a build that checks integer
\* overflow and wraps to 2^64 - (now - due) in one that does not; `build`
\* is that choice.  The wrapped product is 2^64 - m with
\* m = (now - due) * old_price; its quotient by price >= 3 lies below 2^63
\* (a due time far in the future), by price = 1 it wraps back to now - m,
\* by price = 2 it lands on either side of 2^63.  (Defined for due times
\* that are not themselves one of the two representatives.)
UpdatedDue(f, price, build) ==
    LET due == f.subscription_due_time
        old == f.price_per_second_scaled
        m   == (now - due) * old
    IN  IF price = 0 THEN Fail("Panic")
        ELSE IF due >= now
        THEN Val(now + (((due - now) * old) \div price))
        ELSE IF build = "checked" THEN Fail("Panic")
        ELSE IF m = 0 THEN Val(now)
        ELSE IF price = 1 THEN Val(now - m)
        ELSE IF price = 2
             THEN IF 2 * now >= m + (m % 2) THEN Val(FarPast)
                  ELSE Val(FarFuture)
        ELSE Val(FarFuture)

\* update_feed_config without the check of the feed type
UpdateErrorAnyFeedType(caller, params, build) ==
    IF ~feed.created THEN "AccountNotInitialized"
    ELSE IF caller # feed.authority THEN "ConstraintHasOne"
    ELSE IF params.ipfs_cid = "" THEN "InvalidFeedConfig"
    ELSE IF ~(params.min_signatures_threshold > 0) THEN "InvalidFeedConfig"
    ELSE IF calculate_price_per_second_scaled(feed, config).err # "Ok"
         THEN calculate_price_per_second_scaled(feed, config).err
    ELSE UpdatedDue(feed,
             calculate_price_per_second_scaled(feed, config).value,
             build).err

\* the first check of update_feed_config that rejects, "Ok" when none does.
\* The price is computed from the feed as it is when the handler starts.
UpdateError(caller, params, build) ==
    IF ~feed.created THEN "AccountNotInitialized"
    ELSE IF caller # feed.authority THEN "ConstraintHasOne"
    ELSE IF feed.feed_type # "Personal" THEN "NotSupported"
    ELSE IF params.ipfs_cid = "" THEN "InvalidFeedConfig"
    ELSE IF ~(params.min_signatures_threshold > 0) THEN "InvalidFeedConfig"
    ELSE IF calculate_price_per_second_scaled(feed, config).err # "Ok"
         THEN calculate_price_per_second_scaled(feed, config).err
    ELSE UpdatedDue(feed,
             calculate_price_per_second_scaled(feed, config).value,
             build).err

UpdatedFeed(f, params, build) ==
    LET price_per_second_scaled ==
            calculate_price_per_second_scaled(f, config).value
    IN  [f EXCEPT
            !.subscription_due_time =
                UpdatedDue(f, price_per_second_scaled, build).value,
            !.price_per_second_scaled = price_per_second_scaled,
            !.min_signatures_threshold = params.min_signatures_threshold,
            !.frequency = params.frequency,
            !.ipfs_cid = params.ipfs_cid,
            !.job_id = params.job_id]

update_feed_config(caller, params, build) ==
    LET err == UpdateError(caller, params, build) IN
    /\ last' = FeedOutcome("update_feed_config", err,
                           [caller |-> caller, params |-> params])
    /\ feed' = IF err = "Ok" THEN UpdatedFeed(feed, params, build) ELSE feed
    /\ UNCHANGED <<now, nodes, nodeAccounts, config, dataSource, ethLinks>>

(***************************************************************************)
(* Signatures of foreign-chain owners, permit and revoke_permit            *)
(* (instructions/permit.rs, instructions/revoke_permit.rs) and             *)
(* create_data_source (instructions/create_data_source.rs).                *)
(***************************************************************************)
\* a 65-byte signature: the key that made it and the digest it was made
\* over
Signature(signer, digest) == [signer |-> signer, digest |-> digest]

\* bytes from which secp256k1_recover recovers no key
MalformedSignature == Signature("", <<>>)

\* the address recovery yields from a signature checked against a digest it
\* was not made over: an address nobody holds the key of
NobodysAddress == "ethNobody"

\* secp256k1_recover(digest, recovery_id, signature_rs), then the address of
\* the recovered key; a recovery error becomes InvalidEthereumAddress
RecoveredAddress(digest, sig) ==
    IF sig = MalformedSignature
    THEN [err |-> "InvalidEthereumAddress", value |-> ""]
    ELSE [err |-> "Ok",
          value |-> IF sig.digest = digest THEN sig.signer
                    ELSE NobodysAddress]

\* the digest of revoke_permit taken for that of permit as well
digest_link_solana_grantee_shared(owner_eth, grantee) ==
    <<"PermitGrantee", owner_eth, grantee>>

\* eip712::digest_permit_grantee and eip712::digest_link_solana_grantee:
\* typed-data digests of the pair under two distinct type tags
digest_permit_grantee(owner_eth, grantee) ==
    <<"PermitGrantee", owner_eth, grantee>>

digest_link_solana_grantee(owner_eth, grantee) ==
    <<"LinkSolanaGrantee", owner_eth, grantee>>

LinkOutcome(op, err, owner_eth, grantee, sig) ==
    FeedOutcome(op, err,
                [owner_eth |-> owner_eth, grantee |-> grantee, sig |-> sig])

\* `init` of the EthLink PDA fails on an account that exists; then the
\* handler recovers the signer of the permit digest
PermitError(owner_eth, grantee, sig) ==
    LET recovered ==
            RecoveredAddress(digest_permit_grantee(owner_eth, grantee), sig)
    IN  IF EthLinkAt(owner_eth, grantee) # {} THEN "AccountAlreadyInUse"
        ELSE IF recovered.err # "Ok" THEN recovered.err
        ELSE IF recovered.value # owner_eth
             THEN "PermitRecoveredAddressMismatch"
        ELSE "Ok"

permit(owner_eth, grantee, sig) ==
    LET err == PermitError(owner_eth, grantee, sig) IN
    /\ last' = LinkOutcome("permit", err, owner_eth, grantee, sig)
    /\ ethLinks' =
           IF err = "Ok"
           THEN ethLinks \cup {[pda |-> <<owner_eth, grantee>>,
                                owner_eth |-> owner_eth, grantee |-> grantee,
                                created_at |-> now]}
           ELSE ethLinks
    /\ UNCHANGED <<now, nodes, nodeAccounts, config, dataSource, feed>>

\* the EthLink account must exist to be loaded; then the handler recovers
\* the signer of the revocation digest and compares the account's fields
RevokePermitError(owner_eth, grantee, sig) ==
    LET recovered ==
            RecoveredAddress(digest_link_solana_grantee(owner_eth, grantee),
                             sig)
    IN  IF EthLinkAt(owner_eth, grantee) = {} THEN "AccountNotInitialized"
        ELSE IF recovered.err # "Ok" THEN recovered.err
        ELSE IF recovered.value # owner_eth
             THEN "PermitRecoveredAddressMismatch"
        ELSE IF \E l \in EthLinkAt(owner_eth, grantee) :
                    l.owner_eth # owner_eth \/ l.grantee # grantee
             THEN "EthLinkNotFound"
        ELSE "Ok"

revoke_permit(owner_eth, grantee, sig) ==
    LET err == RevokePermitError(owner_eth, grantee, sig) IN
    /\ last' = LinkOutcome("revoke_permit", err, owner_eth, grantee, sig)
    /\ ethLinks' = IF err = "Ok"
                   THEN ethLinks \ EthLinkAt(owner_eth, grantee)
                   ELSE ethLinks
    /\ UNCHANGED <<now, nodes, nodeAccounts, config, dataSource, feed>>

\* create_data_source for the data whose id is the one in use.
\* data.recovered is the address recovery yields from sig.
CreateDataSourceError(data) ==
    IF dataSource.created_at # 0 THEN "AccountAlreadyInUse"
    ELSE IF data.name = "" THEN "InvalidDataSourceData"
    ELSE IF data.recovered # data.owner_eth THEN "InvalidEthereumAddress"
    ELSE "Ok"

create_data_source(data) ==
    LET err == CreateDataSourceError(data) IN
    /\ last' = FeedOutcome("create_data_source", err, data)
    /\ dataSource' =
           IF err = "Ok"
           THEN [created_at |-> now, owner_eth |-> data.owner_eth,
                 data_source_type |-> data.data_source_type]
           ELSE dataSource
    /\ UNCHANGED <<now, nodes, nodeAccounts, config, ethLinks, feed>>

(***************************************************************************)
(* The clock.                                                              *)
(***************************************************************************)
\* the clock value at which exploration starts
Epoch == 100

ClockOutcome == FeedOutcome("clock", "Ok", 0)

Tick ==
    /\ (now - Epoch) % MIN_DURATION < MaxTicks
    /\ now' = now + 1
    /\ last' = ClockOutcome
    /\ UNCHANGED <<nodes, nodeAccounts, config, dataSource, ethLinks, feed>>

DayPasses ==
    /\ (now - Epoch) \div MIN_DURATION < MaxDays
    /\ now' = now + MIN_DURATION
    /\ last' = ClockOutcome
    /\ UNCHANGED <<nodes, nodeAccounts, config, dataSource, ethLinks, feed>>

(***************************************************************************)
(* Initial state: the accounts as `initialize` leaves them.  No instruction *)
(* of the program sets the pricing parameters of ProtocolConfig, so they   *)
(* are either the zeroes of a fresh account or values put there by the     *)
(* protocol's administration.                                              *)
(***************************************************************************)
ZeroConfig ==
    [base_price_units |-> 0, base_price_milli |-> 0, base_price_micro |-> 0,
     frequency_coefficient |-> 0, signers_coefficient |-> 0,
     priority_fee_buffer_percentage |-> 0]

PricedConfig ==
    [base_price_units |-> 100, base_price_milli |-> 0, base_price_micro |-> 0,
     frequency_coefficient |-> 10000, signers_coefficient |-> 10000,
     priority_fee_buffer_percentage |-> 100]

Configs == {ZeroConfig, PricedConfig}

Init ==
    /\ now = Epoch
    /\ nodes = <<>>
    /\ nodeAccounts = {}
    /\ config \in Configs
    /\ dataSource = NoDataSource
    /\ ethLinks = {}
    /\ feed = NoFeed
    /\ last = FeedOutcome("initialize", "Ok", 0)

\* the protocol as `initialize` leaves it
InitUnpriced == Init /\ config = ZeroConfig

\* the protocol with its pricing parameters set
InitPriced == Init /\ config = PricedConfig

(***************************************************************************)
(* Inputs.                                                                 *)
(***************************************************************************)
NodeIds == 0..MaxNodeId

\* identities that sign attestations: the registrable ones and one that is
\* never registered
Signers == 1..(MaxNodeId + 1)

Value1 == 1

Value2 == 2

\* the node identities the feed specification registers
FeedNodeIds == 1..(MaxNodeId - 2)

\* a create_feed call: every argument and the outcome of the transfer
CreateRequest(feed_type, threshold, ipfs_cid, signer, id_matches, eth_link_passed, duration, budget, transfer_ok) ==
    [params |-> [feed_type |-> feed_type,
                 min_signatures_threshold |-> threshold,
                 frequency |-> MIN_DURATION, ipfs_cid |-> ipfs_cid,
                 job_id |-> 1],
     info |-> [data_source_type |-> "Public", owner_eth |-> "ethA",
               recovered |-> signer],
     id_matches |-> id_matches, eth_link_passed |-> eth_link_passed,
     duration |-> duration, budget |-> budget, transfer_ok |-> transfer_ok]

\* update_feed_config parameters: thresholds lo..hi, the daily frequency
UpdateParams(lo, hi) ==
    [min_signatures_threshold : lo..hi,
     frequency : {MIN_DURATION},
     ipfs_cid : {"cid"},
     job_id : {1}]

\* a fee bid of p micro-lamports per compute unit (none when p = 0)
Bid(p) == IF p = 0 THEN <<>> ELSE <<ComputeBudgetIx(3, 0, p)>>

\* attestations of message m by the signers of the sequence ss, in order
Atts(ss, m) == [i \in 1..Len(ss) |-> Attest(ss[i], m)]

\* candidate timestamps: the latest one again, the current time, one second
\* ahead of the clock
PublishTimestamps == {feed.latest_answer.timestamp, now, now + 1}

(***************************************************************************)
(* Next-state relations.                                                   *)
(***************************************************************************)
AddNode(callers, ids) ==
    \E caller \in callers, pk \in ids : add_node(caller, pk)

RemoveNode(callers, ids) ==
    \E caller \in callers, pk \in ids : remove_node(caller, pk)

CreateFeed(requests) ==
    \E r \in requests :
        create_feed(Owner, r.params, r.info, r.id_matches, r.eth_link_passed,
                    r.duration, r.budget, r.transfer_ok)

\* extensions are explored while the allowance and the due time stay within
\* the horizon of the exploration
ExtendSubscription(callers, durations, budgets, transfers) ==
    \E caller \in callers, d \in durations, b \in budgets,
       transfer_ok \in transfers :
        /\ feed.priority_fee_allowance + b <= MaxBudget + 1
        /\ IF d = HugeDuration
           THEN /\ ~IsFar(feed.subscription_due_time)
                /\ feed.balance <= 3 * MaxBalance
           ELSE feed.subscription_due_time + d
                    <= Epoch + (MaxDays + 1) * MIN_DURATION + MaxTicks
        /\ extend_subscription(caller, d, b, transfer_ok)

UpdateFeedConfig(callers, params_set, builds) ==
    \E caller \in callers, params \in params_set, build \in builds :
        /\ ~IsFar(feed.subscription_due_time)
        /\ update_feed_config(caller, params, build)

TopUp(callers, transfers) ==
    \E caller \in callers, amount \in 1..MaxTopUp, transfer_ok \in transfers :
        /\ feed.balance + amount <= MaxBalance
        /\ top_up(caller, amount, transfer_ok)

PublishAnswer(timestamps, batches) ==
    \E ts \in timestamps, batch \in batches :
        publish_answer([value |-> Value1, timestamp |-> ts], batch)

(***************************************************************************)
(* Spec: the life of one feed of a priced protocol, published to with      *)
(* timestamps at, before and after the clock.                              *)
(***************************************************************************)
PlainCreateRequests ==
    {CreateRequest("Personal", 1, "cid", "ethA", TRUE, TRUE, MIN_DURATION, 0,
                   TRUE)}

FeedCreateRequests ==
    {CreateRequest("Personal", 1, "cid", "ethA", TRUE, TRUE, MIN_DURATION, b,
                   TRUE) : b \in {0, MaxBudget}}

FeedBatches == {<<>>, Atts(<<1>>, Value1)}

Next ==
    \/ AddNode({Admin}, FeedNodeIds)
    \/ CreateFeed(PlainCreateRequests)
    \/ ExtendSubscription({Owner}, {MIN_DURATION}, {0}, {TRUE})
    \/ UpdateFeedConfig({Owner}, UpdateParams(1, 2), {"checked", "wrapping"})
    \/ TopUp({Owner}, {TRUE})
    \/ PublishAnswer(PublishTimestamps, FeedBatches)
    \/ Tick
    \/ DayPasses

Spec == InitPriced /\ [][Next]_vars

(***************************************************************************)
(* SpecFees: the same feed with a priority-fee budget, published to by     *)
(* transactions that bid for priority.                                     *)
(***************************************************************************)
FeeBatches ==
    {Bid(p) \o Atts(<<1>>, Value1) : p \in {0, 200, 400}}

NextFees ==
    \/ AddNode({Admin}, FeedNodeIds)
    \/ CreateFeed(FeedCreateRequests)
    \/ ExtendSubscription({Owner}, {MIN_DURATION}, {0, MaxBudget}, BOOLEAN)
    \/ UpdateFeedConfig({Owner}, UpdateParams(1, 2), {"checked"})
    \/ TopUp({Owner}, BOOLEAN)
    \/ PublishAnswer({now}, FeeBatches)
    \/ Tick
    \/ DayPasses

SpecFees == Init /\ [][NextFees]_vars

\* the outcomes of a publish_answer that got as far as counting signers
ReachedAggregator(err) ==
    err \in {"NotEnoughSignatures", "InsufficientBalance", "Panic", "Ok"}

\* the attestations of a batch: the instructions of the ed25519 program
\* that are well formed
WellFormedAttestations(batch) ==
    {i \in 1..Len(batch) :
        /\ batch[i].program = "ed25519"
        /\ batch[i].count = 1
        /\ batch[i].in_bounds}

\* the distinct registry members that attest the message in the batch
DistinctMemberSigners(batch, registry, message) ==
    {x \in Range(registry) :
        \E i \in WellFormedAttestations(batch) :
            batch[i].signer = x /\ batch[i].message = message}

(***************************************************************************)
(* Claims about publish_answer over the life of a feed.  A step is a       *)
(* publish_answer when it leaves that operation's outcome in `last`; the   *)
(* unprimed variables are the accounts the instruction found.              *)
(***************************************************************************)
PublishStep == last'.op = "publish_answer"

\* the feed exists and its subscription has not lapsed
Active == feed.created /\ now < feed.subscription_due_time

\* the submitted answer is newer than the latest one and not ahead of the
\* clock
FreshAnswer ==
    /\ last'.answer.timestamp > feed.latest_answer.timestamp
    /\ last'.answer.timestamp <= now

\* C2: latest_answer.timestamp strictly increases with each accepted
\* publish_answer and no other operation lowers it; a publish_answer to an
\* active feed whose timestamp is not above the latest one is rejected with
\* PastTimestamp and leaves every feed field unchanged.
C2_TimestampsStrictlyIncrease ==
    [][/\ feed.created
          => feed'.latest_answer.timestamp >= feed.latest_answer.timestamp
       /\ (PublishStep /\ last'.err = "Ok")
          => feed'.latest_answer.timestamp > feed.latest_answer.timestamp
       /\ (/\ PublishStep
           /\ Active
           /\ last'.answer.timestamp <= feed.latest_answer.timestamp)
          => (last'.err = "PastTimestamp" /\ feed' = feed)]_vars

\* C5: publish_answer to a feed whose subscription has lapsed
\* (now >= subscription_due_time) fails with SubscriptionExpired and changes
\* no feed field.
C5_ExpiredFeedRejectsPublish ==
    [][(PublishStep /\ feed.created /\ now >= feed.subscription_due_time)
          => (last'.err = "SubscriptionExpired" /\ feed' = feed)]_vars

\* C6: publish_answer to an active feed with a timestamp newer than the
\* latest one but ahead of the clock fails with FutureTimestamp and leaves
\* the feed unchanged; latest_answer.timestamp is never ahead of the clock.
C6_FutureTimestampRejected ==
    [][/\ (/\ PublishStep
           /\ Active
           /\ last'.answer.timestamp > feed.latest_answer.timestamp
           /\ last'.answer.timestamp > now)
          => (last'.err = "FutureTimestamp" /\ feed' = feed)
       /\ feed'.latest_answer.timestamp <= now']_vars

\* C4: a publish_answer to an active feed with a fresh answer
\* and fewer distinct registry-member signers than the threshold is rejected
\* with NotEnoughSignatures and leaves the feed unchanged.
C4_TooFewSignersNotEnoughSignatures ==
    [][(/\ PublishStep
        /\ Active
        /\ FreshAnswer
        /\ Cardinality(DistinctMemberSigners(last'.batch, nodes,
                                             last'.answer.value))
               < feed.min_signatures_threshold)
          => (last'.err = "NotEnoughSignatures" /\ feed' = feed)]_vars

\* C7: an accepted publish_answer lowers the balance by exactly the fee it
\* charges and raises consumed_priority_fees by the same amount; a
\* publish_answer whose fee exceeds the balance is rejected and leaves the
\* balance as it was; the balance is never negative.
C7_BalancePaysExactlyTheFee ==
    [][/\ (PublishStep /\ last'.err = "Ok")
          => /\ feed'.balance = feed.balance - last'.fee
             /\ feed'.consumed_priority_fees =
                    feed.consumed_priority_fees + last'.fee
       /\ (PublishStep /\ last'.fee > feed.balance)
          => (last'.err # "Ok" /\ feed'.balance = feed.balance)
       /\ feed'.balance >= 0]_vars

\* C7 witness: a publish_answer that charged a fee was accepted, and it
\* spent the whole balance.
C7_Witness ==
    /\ last.op = "publish_answer"
    /\ last.err = "Ok"
    /\ last.fee > 0
    /\ feed.balance = 0

\* C8: consumed_priority_fees never exceeds priority_fee_allowance; a
\* publish_answer to an active feed with a fresh answer whose fee would take
\* consumed_priority_fees above the allowance fails with
\* InsufficientPriorityFeeBudget and leaves the feed unchanged.
C8_ConsumedWithinAllowance ==
    [][/\ feed'.consumed_priority_fees <= feed'.priority_fee_allowance
       /\ (/\ PublishStep
           /\ Active
           /\ FreshAnswer
           /\ feed.consumed_priority_fees + last'.fee
                  > feed.priority_fee_allowance)
          => (last'.err = "InsufficientPriorityFeeBudget" /\ feed' = feed)]_vars

(***************************************************************************)
(* SpecRegistry: the node registry alone, grown to its capacity.  The      *)
(* first MaxNodeId identities are added and removed in every order; beyond *)
(* them the registry grows and shrinks at its end.                         *)
(***************************************************************************)
RegistryAdds == NodeIds \cup {Len(nodes), Len(nodes) + 1}

RegistryRemoves ==
    IF Len(nodes) <= MaxNodeId THEN NodeIds
    ELSE {Len(nodes), Len(nodes) + 1}

NextRegistry ==
    \/ AddNode({Admin, Stranger}, RegistryAdds)
    \/ RemoveNode({Admin, Stranger}, RegistryRemoves)

SpecRegistry == InitUnpriced /\ [][NextRegistry]_vars

\* C9: at all times the registry holds no key twice and at most MAX_NODES
\* (256) keys.
C9_RegistryDistinctAndBounded ==
    /\ Cardinality(Range(nodes)) = Len(nodes)
    /\ Len(nodes) <= MAX_NODES

\* C9 witness: the registry is full and the authority's add_node of a key
\* that is not a member was rejected for that reason.
C9_Witness ==
    /\ Len(nodes) = MAX_NODES
    /\ last.op = "add_node"
    /\ last.err = "MaxNodesReached"
    /\ ~Contains(nodes, last.key.pk)

\* C10: add_node by the authority for a key that is already a member fails
\* with NodeAlreadyAdded and leaves the registry as it was.
C10_DuplicateAddNodeAlreadyAdded ==
    (/\ last.op = "add_node"
     /\ last.key.caller = RegistryAuthority
     /\ last.err # "Ok"
     /\ Contains(nodes, last.key.pk))
        => last.err = "NodeAlreadyAdded"

\* a step of add_node or remove_node
RegistryStep == last'.op \in {"add_node", "remove_node"}

\* C11: add_node or remove_node issued by a caller other than the registry
\* authority is rejected and leaves the node set unchanged.
C11_OnlyAuthorityMutatesRegistry ==
    [][(RegistryStep /\ last'.key.caller # RegistryAuthority)
          => (last'.err # "Ok" /\ nodes' = nodes)]_vars

\* C11 witness: a caller other than the authority asked to remove a key that
\* is a member, was rejected, and the key is still a member.
C11_Witness ==
    /\ last.op = "remove_node"
    /\ last.key.caller = Stranger
    /\ last.err = "ConstraintHasOne"
    /\ Contains(nodes, last.key.pk)

\* C12: remove_node by the authority of a key that is not a member fails with
\* NodeNotFound and leaves the registry unchanged; of a member, it leaves
\* exactly the other members in the registry.
C12_RemoveNodeShrinksByIdentity ==
    [][(last'.op = "remove_node" /\ last'.key.caller = RegistryAuthority)
          => IF ~Contains(nodes, last'.key.pk)
             THEN last'.err = "NodeNotFound" /\ nodes' = nodes
             ELSE /\ last'.err = "Ok"
                  /\ Range(nodes') = Range(nodes) \ {last'.key.pk}]_vars

(***************************************************************************)
(* SpecHistory: one feed published to again and again, every answer one    *)
(* second after the one before, until the history buffer has been filled   *)
(* and written past its capacity.                                          *)
(***************************************************************************)
HistoryTimestamps ==
    {t \in {feed.latest_answer.timestamp, feed.latest_answer.timestamp + 1} :
        t <= MAX_HISTORY + ExtraPublishes}

NextHistory ==
    \/ AddNode({Admin}, FeedNodeIds)
    \/ CreateFeed(PlainCreateRequests)
    \/ PublishAnswer(HistoryTimestamps, FeedBatches)
    \/ Tick

SpecHistory == Init /\ [][NextHistory]_vars

\* the rejections of publish_answer
PublishRejections ==
    {"AccountNotInitialized", "ConstraintSeeds", "SubscriptionExpired",
     "PastTimestamp", "FutureTimestamp", "InsufficientPriorityFeeBudget",
     "NotEnoughSignatures", "InsufficientBalance"}

\* the n-th answer of SpecHistory: it carries the timestamp n
NthAnswer(n) == [value |-> Value1, timestamp |-> n]

\* the buffer after n > MAX_HISTORY answers written in wraparound order:
\* the answer m of the last MAX_HISTORY ones is in slot (m - 1) mod
\* MAX_HISTORY, counted from 0
WrappedHistory(n) ==
    [i \in 1..MAX_HISTORY |->
        NthAnswer(CHOOSE m \in (n - MAX_HISTORY + 1)..n :
                      (m - 1) % MAX_HISTORY = i - 1)]

\* C1: a publish that no check rejects is recorded, and after N > MAX_HISTORY
\* (20) accepted publishes the history holds exactly the last 20 answers in
\* wraparound order with the write cursor at N mod 20.
C1_HistoryHoldsLastTwenty ==
    (last.op = "publish_answer" /\ last.err \notin PublishRejections)
        => /\ last.err = "Ok"
           /\ feed.latest_answer = last.answer
           /\ LET n == feed.latest_answer.timestamp IN
              n > MAX_HISTORY =>
                  /\ feed.answer_history = WrappedHistory(n)
                  /\ feed.history_idx = n % MAX_HISTORY

\* C1 witness: the buffer is full after MAX_HISTORY accepted publishes and
\* the next publish, which no check rejects, has been submitted.
C1_Witness ==
    /\ Len(feed.answer_history) = MAX_HISTORY
    /\ last.op = "publish_answer"
    /\ last.answer.timestamp = MAX_HISTORY + 1
    /\ last.err \notin PublishRejections

(***************************************************************************)
(* SpecAggregator: the signature check of publish_answer, over every batch *)
(* of up to MaxBatch instructions and a registry of up to MaxNodeId nodes. *)
(***************************************************************************)
\* nodes register in the order of their identities
AggregatorAdds == {Len(nodes) + 1} \cap (1..MaxNodeId)

AggregatorCreateRequests ==
    {CreateRequest("Personal", t, "cid", "ethA", TRUE, TRUE, MIN_DURATION, 0,
                   TRUE) : t \in {2, MaxNodeId}}

\* the instructions a batch is made of: attestations of the published value
\* by every signer, an attestation of another value, an attestation that
\* does not parse, and an instruction of another program
AggregatorIxs ==
    {Attest(s, Value1) : s \in Signers}
        \cup {Attest(1, Value2), Ed25519Ix(2, TRUE, 2, Value1),
              ComputeBudgetIx(3, 0, 1)}

AggregatorBatches ==
    UNION {[1..n -> AggregatorIxs] : n \in 0..MaxBatch}

NextAggregator ==
    \/ AddNode({Admin}, AggregatorAdds)
    \/ CreateFeed(AggregatorCreateRequests)
    \/ PublishAnswer({now}, AggregatorBatches)

SpecAggregator == InitUnpriced /\ [][NextAggregator]_vars

\* C3: the number of signers a publish accepts is the number of distinct
\* registry members with a well-formed attestation of the target message in
\* the batch, whatever the order and multiplicity of the attestations; the
\* publish succeeds only when that number reaches the threshold.
C3_AcceptedCountIsDistinctMembers ==
    (last.op = "publish_answer" /\ ReachedAggregator(last.err))
        => /\ last.count =
                  Cardinality(DistinctMemberSigners(last.batch, nodes,
                                                    last.answer.value))
           /\ last.err = "Ok" <=>
                  last.count >= feed.min_signatures_threshold

\* C3 witness: registry {1, 2, 3}, threshold 2, attestations by 1 and 2 and
\* one by the non-member MaxNodeId + 1; two signers counted, publish accepted.
C3_Witness ==
    /\ Range(nodes) = 1..3
    /\ feed.min_signatures_threshold = 2
    /\ last.op = "publish_answer"
    /\ Len(last.batch) = 3
    /\ \A i \in 1..3 : last.batch[i].program = "ed25519"
    /\ {last.batch[i].signer : i \in 1..3} = {1, 2, MaxNodeId + 1}
    /\ \A i \in 1..3 : last.batch[i] = Attest(last.batch[i].signer, Value1)
    /\ last.count = 2
    /\ last.err = "Ok"


(***************************************************************************)
(* SpecSubscription: a feed is bought, published to, extended and left to  *)
(* lapse.  Subscriptions and extensions are asked for with half a day and  *)
(* one day, with and without a priority-fee budget, by the owner and by a  *)
(* stranger, with and without the funds to pay.                            *)
(***************************************************************************)
HalfDay == MIN_DURATION \div 2

SubscriptionCreateRequests ==
    {CreateRequest("Personal", t, "cid", "ethA", TRUE, TRUE, d, b, ok) :
        t \in {0, 1}, d \in {HalfDay, MIN_DURATION}, b \in {0, MaxBudget},
        ok \in BOOLEAN}

NextSubscription ==
    \/ AddNode({Admin}, FeedNodeIds)
    \/ CreateFeed(SubscriptionCreateRequests)
    \/ ExtendSubscription({Owner, Stranger}, {HalfDay, MIN_DURATION},
                          {0, MaxBudget}, BOOLEAN)
    \/ PublishAnswer({now}, {Atts(<<1>>, Value1)})
    \/ Tick
    \/ DayPasses

SpecSubscription == Init /\ [][NextSubscription]_vars

\* the arguments of the instruction a step executes
Args == last'.key

Max(a, b) == IF a >= b THEN a ELSE b

\* C13: a successful create_feed with duration d >= 86400 and priority budget
\* b yields a feed priced at p, the pricing result for its parameters, with
\* balance floor(p * d / 10^6) + b, allowance b, nothing consumed, due time
\* now + d and an empty history, which is Active; d = 86400, b = 0, p = 100
\* give balance 8.
C13_CreatedFeedIsFundedAndActive ==
    [][(last'.op = "create_feed" /\ last'.err = "Ok")
          => LET d == Args.duration
                 b == Args.budget
                 p == calculate_price_per_second_scaled(Args.params,
                                                        config).value
             IN  /\ d >= 86400
                 /\ feed'.created
                 /\ feed'.price_per_second_scaled = p
                 /\ feed'.subscription_due_time = now + d
                 /\ now' < feed'.subscription_due_time
                 /\ feed'.balance = ((p * d) \div 1000000) + b
                 /\ feed'.priority_fee_allowance = b
                 /\ feed'.consumed_priority_fees = 0
                 /\ feed'.answer_history = <<>>
                 /\ (d = 86400 /\ b = 0 /\ p = 100) => feed'.balance = 8]_vars

\* C13 witness: a feed priced at 100 was created for 86400 seconds with no
\* budget, and a feed was created with a budget.
C13_Witness ==
    /\ last.op = "create_feed"
    /\ last.err = "Ok"
    /\ \/ /\ last.key.duration = 86400
          /\ last.key.budget = 0
          /\ feed.price_per_second_scaled = 100
          /\ feed.balance = 8
       \/ /\ last.key.budget = MaxBudget
          /\ feed.price_per_second_scaled = 100
          /\ feed.balance = 8 + MaxBudget

\* C14: create_feed of a feed that does not exist yet, with a valid
\* threshold and pointer and a duration below 86400 seconds, fails with
\* MinimumSubscriptionTime, creates no account and moves no funds.
C14_ShortSubscriptionRejected ==
    [][(/\ last'.op = "create_feed"
        /\ ~feed.created
        /\ Args.params.min_signatures_threshold > 0
        /\ Args.params.ipfs_cid # ""
        /\ Args.duration < 86400)
          => /\ last'.err = "MinimumSubscriptionTime"
             /\ feed' = feed
             /\ dataSource' = dataSource
             /\ ethLinks' = ethLinks]_vars

\* C14 witness: a half-day subscription was asked for with the funds to pay
\* for it and was rejected; no feed exists.
C14_Witness ==
    /\ last.op = "create_feed"
    /\ last.key.duration = HalfDay
    /\ last.key.params.min_signatures_threshold > 0
    /\ last.err = "MinimumSubscriptionTime"
    /\ feed = NoFeed

\* C15: a successful extend_subscription sets subscription_due_time to
\* max(now, old due time) + additional_duration and leaves the feed Active;
\* the owner's extension by less than 86400 seconds fails with
\* MinimumExtensionTime and changes nothing.
C15_ExtensionRebasesOnMax ==
    [][/\ (last'.op = "extend_subscription" /\ last'.err = "Ok")
          => /\ feed'.subscription_due_time =
                    Max(now, feed.subscription_due_time) + Args.duration
             /\ now' < feed'.subscription_due_time
       /\ (/\ last'.op = "extend_subscription"
           /\ feed.created
           /\ Args.caller = feed.authority
           /\ Args.duration < 86400)
          => (last'.err = "MinimumExtensionTime" /\ feed' = feed)]_vars

\* C15 witness: a feed bought for one day was extended after it had lapsed,
\* and its new due time counts from the clock.
C15_Witness ==
    /\ last.op = "extend_subscription"
    /\ last.err = "Ok"
    /\ now > feed.created_at + MIN_DURATION
    /\ feed.subscription_due_time = now + last.key.duration

\* the owner asks to extend an Active feed by 43200 seconds with no budget
\* and with the funds to pay
HalfDayExtensionOfActiveFeed ==
    /\ last'.op = "extend_subscription"
    /\ Active
    /\ Args.caller = feed.authority
    /\ Args.duration = 43200
    /\ Args.budget = 0
    /\ Args.funded

\* C16 as stated: extend(43200, 0) on a still-Active feed succeeds with
\* new_due_time = old_due_time + 43200.
C16_HalfDayExtensionSucceeds ==
    [][HalfDayExtensionOfActiveFeed
          => /\ last'.err = "Ok"
             /\ feed'.subscription_due_time =
                    feed.subscription_due_time + 43200]_vars

\* C16 amended: extend(43200, 0) on a still-Active feed fails with
\* MinimumExtensionTime and leaves the feed as it was; the shortest
\* extension accepted, 86400 seconds, gives new_due_time = old_due_time +
\* 86400.
C16_HalfDayExtensionRejected ==
    [][/\ HalfDayExtensionOfActiveFeed
          => (last'.err = "MinimumExtensionTime" /\ feed' = feed)
       /\ (/\ last'.op = "extend_subscription"
           /\ Active
           /\ Args.caller = feed.authority
           /\ Args.duration = 86400
           /\ Args.funded)
          => /\ last'.err = "Ok"
             /\ feed'.subscription_due_time =
                    feed.subscription_due_time + 86400]_vars

\* C16 witness: the owner's funded extension of an Active feed by 43200
\* seconds was rejected.
C16_Witness ==
    /\ last.op = "extend_subscription"
    /\ last.key.caller = feed.authority
    /\ last.key.duration = 43200
    /\ last.key.budget = 0
    /\ last.key.funded
    /\ last.err = "MinimumExtensionTime"
    /\ feed.created
    /\ now < feed.subscription_due_time

\* amount = floor(price * duration / 10^6).  A product beyond u64 gives a
\* cost of at least 2^64 / 10^6, above every amount a feed of the
\* exploration is charged.
Charged(amount, price, duration) ==
    /\ ~CostOverflows(price, duration)
    /\ amount = (price * duration) \div 1000000

\* C17: a successful extend_subscription(d, b) adds
\* floor(price_per_second_scaled * d / 10^6) + b to the balance and b to the
\* allowance, and leaves consumed_priority_fees, price_per_second_scaled,
\* latest_answer and answer_history as they were.
C17_ExtensionChargesCostPlusBudget ==
    [][(last'.op = "extend_subscription" /\ last'.err = "Ok")
          => /\ Charged(feed'.balance - feed.balance - Args.budget,
                        feed.price_per_second_scaled, Args.duration)
             /\ feed'.priority_fee_allowance =
                    feed.priority_fee_allowance + Args.budget
             /\ feed'.consumed_priority_fees = feed.consumed_priority_fees
             /\ feed'.price_per_second_scaled = feed.price_per_second_scaled
             /\ feed'.latest_answer = feed.latest_answer
             /\ feed'.answer_history = feed.answer_history]_vars

\* C17 witness: a feed priced at 100 that holds an answer was extended by a
\* day with a budget; it was bought for 8 and now holds 16 and the budget.
C17_Witness ==
    /\ last.op = "extend_subscription"
    /\ last.err = "Ok"
    /\ last.key.budget = MaxBudget
    /\ feed.price_per_second_scaled = 100
    /\ feed.answer_history # <<>>
    /\ feed.priority_fee_allowance = MaxBudget
    /\ feed.balance = 16 + MaxBudget


(***************************************************************************)
(* SpecReconfigure: Public and Personal feeds, reconfigured by the owner   *)
(* and by a stranger with valid and invalid parameters, before and after   *)
(* the subscription lapses.                                                *)
(***************************************************************************)
ReconfigureCreateRequests ==
    {CreateRequest(type, 1, "cid", "ethA", TRUE, TRUE, MIN_DURATION, 0, TRUE) :
        type \in {"Public", "Personal"}}

ReconfigureParams ==
    [min_signatures_threshold : 0..2,
     frequency : {MIN_DURATION, HalfDay},
     ipfs_cid : {"", "cid"},
     job_id : {1}]

NextReconfigure ==
    \/ AddNode({Admin}, FeedNodeIds)
    \/ CreateFeed(ReconfigureCreateRequests)
    \/ UpdateFeedConfig({Owner}, ReconfigureParams, {"checked", "wrapping"})
    \/ UpdateFeedConfig({Stranger}, UpdateParams(1, 1), {"checked"})
    \/ PublishAnswer({now}, {Atts(<<1>>, Value1)})
    \/ Tick
    \/ DayPasses

SpecReconfigure == Init /\ [][NextReconfigure]_vars

UpdateStep == last'.op = "update_feed_config"

\* C18: after a successful update_feed_config the stored
\* price_per_second_scaled is the pricing result for the NEW threshold and
\* the NEW frequency under the current protocol configuration.
C18_PriceFromNewParameters ==
    [][(UpdateStep /\ last'.err = "Ok")
          => feed'.price_per_second_scaled =
                 calculate_price_per_second_scaled(Args.params, config).value]_vars

\* C18 witness: a feed with threshold 1, priced at 100, was reconfigured to
\* threshold 2 and is still priced at 100.
C18_Witness ==
    /\ last.op = "update_feed_config"
    /\ last.err = "Ok"
    /\ feed.min_signatures_threshold = 2
    /\ feed.frequency = MIN_DURATION
    /\ feed.price_per_second_scaled = 100
    /\ calculate_price_per_second_scaled(feed, config).value = 200

C20_InvalidUpdateRejected ==
    [][(UpdateStep /\ feed.created)
          => /\ Args.caller # feed.authority
                => (last'.err # "Ok" /\ feed' = feed)
             /\ (Args.caller = feed.authority /\ feed.feed_type = "Public")
                => (last'.err = "NotSupported" /\ feed' = feed)
             /\ (/\ Args.caller = feed.authority
                 /\ feed.feed_type = "Personal"
                 /\ \/ Args.params.ipfs_cid = ""
                    \/ Args.params.min_signatures_threshold = 0)
                => (last'.err = "InvalidFeedConfig" /\ feed' = feed)]_vars

\* C20 witness: the owner of a Public feed asked for a valid new
\* configuration and was refused.
C20_Witness ==
    /\ last.op = "update_feed_config"
    /\ last.key.caller = feed.authority
    /\ feed.feed_type = "Public"
    /\ last.key.params.ipfs_cid # ""
    /\ last.key.params.min_signatures_threshold > 0
    /\ last.err = "NotSupported"

(***************************************************************************)
(* The price function on its own: SpecPricing draws the protocol           *)
(* configuration from PricingConfigs and quotes feeds of PricingFeeds.     *)
(***************************************************************************)
MaxBaseUnits == 2

PricingConfigs ==
    { [base_price_units |-> d2, base_price_milli |-> d1,
       base_price_micro |-> d0, frequency_coefficient |-> fc,
       signers_coefficient |-> sc, priority_fee_buffer_percentage |-> b] :
        d2 \in 0..MaxBaseUnits, d1 \in {0, 333333}, d0 \in {0, 500000},
        fc \in {0, 10000}, sc \in {10000, 20000}, b \in {100, 150} }

PricingFeeds ==
    { [frequency |-> fr, min_signatures_threshold |-> th] :
        fr \in {0, HalfDay, MIN_DURATION}, th \in 1..MaxNodeId }

InitPricing ==
    /\ now = Epoch
    /\ nodes = <<>>
    /\ nodeAccounts = {}
    /\ config \in PricingConfigs
    /\ dataSource = NoDataSource
    /\ ethLinks = {}
    /\ feed = NoFeed
    /\ last = FeedOutcome("initialize", "Ok", 0)

\* one evaluation of calculate_price_per_second_scaled(f, config)
Quote(feeds) ==
    \E f \in feeds :
        LET price == calculate_price_per_second_scaled(f, config)
        IN  /\ last' = Outcome("calculate_price_per_second_scaled",
                               price.err, f, NoAnswer, <<>>, 0, price.value)
            /\ UNCHANGED <<now, nodes, nodeAccounts, config, dataSource,
                           ethLinks, feed>>

NextPricing == Quote(PricingFeeds)

SpecPricing == InitPricing /\ [][NextPricing]_vars

Quoted == last.op = "calculate_price_per_second_scaled"

\* the value the price formula names: the base price multiplied by each
\* factor in turn, floor-divided by SCALAR after each multiplication, then
\* scaled by the buffer percentage
ReferencePrice(f, cfg) ==
    LET frequency_factor == precise_pow(86400 \div f.frequency,
                                cfg.frequency_coefficient, 10000, SCALAR)
        signers_factor   == precise_pow(f.min_signatures_threshold,
                                cfg.signers_coefficient, 10000, SCALAR)
        by_frequency == WDivScalar(WMul(BasePrice(cfg),
                                        frequency_factor.value))
        by_signers   == WDivScalar(WMul(by_frequency, signers_factor.value))
    IN  (WToInt(by_signers) * cfg.priority_fee_buffer_percentage) \div 100

\* C21: for every configuration and every feed with a non-zero frequency,
\* calculate_price_per_second_scaled succeeds with the reference value
\* base * frequency_factor * signers_factor * buffer / 100, a floor division
\* by SCALAR being applied at each multiplication by a factor.
C21_PriceEqualsReference ==
    (Quoted /\ last.key.frequency # 0)
        => /\ last.err = "Ok"
           /\ last.fee = ReferencePrice(last.key, config)

\* C21 witness: a quote in which the two orders of division differ, the
\* function returning 1 where the reference value is 0.
C21_Witness ==
    /\ Quoted
    /\ last.err = "Ok"
    /\ last.fee = 1
    /\ ReferencePrice(last.key, config) = 0

(***************************************************************************)
(* SpecOverflow: subscriptions bought and extended for a day and for 2^63  *)
(* seconds, at the prices 0, 100 and 200, by a program built with and      *)
(* without integer-overflow checks.                                        *)
(***************************************************************************)
OverflowCreateRequests ==
    { [CreateRequest("Personal", t, "cid", "ethA", TRUE, TRUE, d, b, ok)
          EXCEPT !.params.frequency = fr] :
        t \in 1..2, d \in {MIN_DURATION, HugeDuration},
        b \in {0, MaxBudget}, ok \in BOOLEAN, fr \in {0, MIN_DURATION} }

NextOverflow ==
    \/ CreateFeed(OverflowCreateRequests)
    \/ ExtendSubscription({Owner}, {MIN_DURATION, HugeDuration},
                          {0, MaxBudget}, BOOLEAN)
    \/ Tick
    \/ DayPasses

SpecOverflow == Init /\ [][NextOverflow]_vars

\* a create_feed or extend_subscription step
CostStep == last'.op \in {"create_feed", "extend_subscription"}

\* C22: the price and cost computations are overflow-checked: a create_feed
\* or extend_subscription whose product price * duration exceeds u64 is
\* rejected, a successful one stores the exact cost and a due time that
\* lies the whole duration ahead, never a value wrapped modulo 2^64, and a
\* feed with frequency 0 is rejected.
C22_CostIsExactOrRejected ==
    [][(CostStep /\ last'.err = "Ok")
          => LET p == feed'.price_per_second_scaled
                 d == Args.duration
             IN  /\ ~CostOverflows(p, d)
                 /\ feed'.subscription_due_time >= now + 86400
                 /\ feed'.balance
                        = feed.balance + ((p * d) \div 1000000) + Args.budget
                 /\ feed'.frequency # 0]_vars

\* C22 witness: a feed priced at 100 was bought for 2^63 seconds; the
\* product wrapped to 0, nothing but the budget was charged, and the due
\* time wrapped into the past.
C22_Witness ==
    /\ last.op = "create_feed"
    /\ last.err = "Ok"
    /\ last.key.duration = HugeDuration
    /\ feed.price_per_second_scaled = 100
    /\ feed.balance = last.key.budget
    /\ feed.subscription_due_time = FarPast

\* the instructions of a feed's life cycle
FeedOps ==
    {"create_feed", "extend_subscription", "top_up", "publish_answer",
     "update_feed_config"}

EthOwners == {"ethA"}

EthKeys == {"ethA", "ethB"}

Grantees == {Owner, Stranger}

LinkSignatures(owner_eth, grantee) ==
    {MalformedSignature} \cup
    { Signature(k, d) :
        k \in EthKeys,
        d \in {digest_permit_grantee(owner_eth, grantee),
               digest_link_solana_grantee(owner_eth, grantee)} }

Permit ==
    \E o \in EthOwners, g \in Grantees :
        \E sig \in LinkSignatures(o, g) : permit(o, g, sig)

RevokePermit ==
    \E o \in EthOwners, g \in Grantees :
        \E sig \in LinkSignatures(o, g) : revoke_permit(o, g, sig)

DataSources ==
    [owner_eth : EthOwners, data_source_type : {"Public", "Private"},
     name : {"", "name"}, recovered : EthKeys]

CreateDataSource == \E data \in DataSources : create_data_source(data)

LinkCreateRequests ==
    { [CreateRequest("Personal", 1, "cid", "ethA", TRUE, passed,
                     MIN_DURATION, 0, TRUE)
          EXCEPT !.info.data_source_type = type] :
        passed \in BOOLEAN, type \in {"Public", "Private"} }

\* the id in use is that of one kind of data source: a request of the
\* other kind has another id
CreateFeedOverDataSource(requests) ==
    CreateFeed({r \in requests :
                   \/ dataSource.created_at = 0
                   \/ r.info.data_source_type = dataSource.data_source_type})

NextLinks ==
    \/ Permit
    \/ RevokePermit
    \/ CreateDataSource
    \/ CreateFeedOverDataSource(LinkCreateRequests)
    \/ Tick

SpecLinks == InitUnpriced /\ [][NextLinks]_vars

\* the link of the pair made by a permit: the only links whose fields are
\* filled
PermittedLinks(owner_eth, grantee) ==
    {l \in EthLinkAt(owner_eth, grantee) :
        l.owner_eth = owner_eth /\ l.grantee = grantee}

PrivateDataSourceExists ==
    dataSource.created_at # 0 /\ dataSource.data_source_type = "Private"

\* C24: a feed over a Private data source is created only by an authority
\* holding an EthLink (owner of the data source, authority) made by a
\* successful permit; without such a link create_feed fails with
\* InvalidDataSource and creates nothing.
C24_PrivateFeedNeedsPermit ==
    [][(/\ last'.op = "create_feed"
        /\ ~feed.created
        /\ PrivateDataSourceExists
        /\ PermittedLinks(dataSource.owner_eth, Args.caller) = {})
          => /\ last'.err = "InvalidDataSource"
             /\ UNCHANGED <<feed, dataSource, ethLinks>>]_vars

\* C24 witness: a feed exists over a Private data source that was created
\* before it, and its authority holds no link made by a permit.
C24_Witness ==
    /\ last.op = "create_feed"
    /\ last.err = "Ok"
    /\ PrivateDataSourceExists
    /\ dataSource.created_at < feed.created_at
    /\ PermittedLinks(dataSource.owner_eth, feed.authority) = {}

\* a permit or revoke_permit step
LinkStep == last'.op \in {"permit", "revoke_permit"}

\* C25: there is at most one EthLink per pair (owner_address, grantee);
\* a permit on an existing pair fails and changes nothing, a revoke_permit
\* on a missing pair fails, and no operation other than a successful permit
\* creates a link, so that a link exists exactly when the last successful
\* link operation on its pair was a permit.
C25_LinksComeFromPermitsOnly ==
    [][/\ \A o \in EthOwners, g \in Grantees :
              Cardinality(EthLinkAt(o, g)') <= 1
       /\ (last'.op = "permit"
               /\ EthLinkAt(Args.owner_eth, Args.grantee) # {})
              => (last'.err # "Ok" /\ ethLinks' = ethLinks)
       /\ (last'.op = "revoke_permit"
               /\ EthLinkAt(Args.owner_eth, Args.grantee) = {})
              => (last'.err # "Ok" /\ ethLinks' = ethLinks)
       /\ ~(ethLinks' \subseteq ethLinks)
              => (last'.op = "permit" /\ last'.err = "Ok")]_vars

\* C25 witness: an EthLink account exists that no permit made, and a
\* permit for its pair, signed by the owner, was refused.
C25_Witness ==
    /\ last.op = "permit"
    /\ last.err = "AccountAlreadyInUse"
    /\ last.key.sig = Signature(last.key.owner_eth,
                                digest_permit_grantee(last.key.owner_eth,
                                                      last.key.grantee))
    /\ EthLinkAt(last.key.owner_eth, last.key.grantee) # {}
    /\ PermittedLinks(last.key.owner_eth, last.key.grantee) = {}

\* the signature of the key of owner_eth over the digest of op
OwnerSignature(op, owner_eth, grantee) ==
    Signature(owner_eth,
              IF op = "permit"
              THEN digest_permit_grantee(owner_eth, grantee)
              ELSE digest_link_solana_grantee(owner_eth, grantee))

\* C26: permit and revoke_permit verify signatures over distinct digests of
\* the same pair: the signature with which a permit has just succeeded does
\* not make revoke_permit succeed for that pair, nor the other way round,
\* and either operation fails without changing the state when the address
\* recovered from the signature is not owner_address.
C26_PermitAndRevokeDigestsDiffer ==
    [][/\ (/\ last.op \in {"permit", "revoke_permit"}
           /\ last.err = "Ok"
           /\ LinkStep
           /\ last'.op # last.op
           /\ last'.key = last.key)
          => last'.err # "Ok"
       /\ (LinkStep /\ last'.err = "Ok")
          => Args.sig = OwnerSignature(last'.op, Args.owner_eth, Args.grantee)
       /\ (LinkStep /\ last'.err # "Ok")
          => UNCHANGED <<now, nodes, nodeAccounts, config, dataSource,
                         ethLinks, feed>>]_vars

\* C26 witness: a link was granted with the owner's signature over the
\* permit digest, and revoke_permit with that same signature was refused
\* because the recovered address is not the owner's.
C26_Witness ==
    /\ last.op = "revoke_permit"
    /\ last.err = "PermitRecoveredAddressMismatch"
    /\ last.key.sig = OwnerSignature("permit", last.key.owner_eth,
                                     last.key.grantee)
    /\ PermittedLinks(last.key.owner_eth, last.key.grantee) # {}

\* C27: a DataSource record is immutable after creation: once the data
\* source exists, created by create_data_source or by the first create_feed
\* over it, no operation, a later create_feed over it included, changes its
\* owner, kind or created_at.
C27_DataSourceImmutable ==
    [][dataSource.created_at # 0 => dataSource' = dataSource]_vars

\* C27 witness: a feed was created over a data source that create_data_source
\* had made before, and the record still carries the earlier creation time.
C27_Witness ==
    /\ last.op = "create_feed"
    /\ last.err = "Ok"
    /\ dataSource.created_at # 0
    /\ dataSource.created_at < feed.created_at

(***************************************************************************)
(* The data-source identifier on its own (utils/eip712.rs): SpecIds        *)
(* computes the identifier of one record after another.  Byte strings are  *)
(* sequences over Bytes; owner_eth has OwnerLen bytes (20 in the program). *)
(***************************************************************************)
MaxLen == 2

OwnerLen == 2

Bytes == {1, 2}

ByteStrings(n) == UNION {[1..k -> Bytes] : k \in 0..n}

DataSourceInits ==
    [data_source_type : {"Public", "Private"}, source : ByteStrings(MaxLen),
     owner_eth : [1..OwnerLen -> Bytes], name : ByteStrings(MaxLen)]

\* the bytes compute_data_source_id hashes: the kind byte, then
\* source.as_bytes(), owner_eth and name.as_bytes(), one after the other
Serialized(data) ==
    <<IF data.data_source_type = "Public" THEN 0 ELSE 1>>
        \o data.source \o data.owner_eth \o data.name

\* keccak::hash, taken to be free of collisions: the hash of a byte string
\* is held as the string itself
Keccak(bytes) == <<"keccak", bytes>>

compute_data_source_id(data) == Keccak(Serialized(data))

ComputeId(datas) ==
    \E data \in datas :
        /\ last' = Outcome("compute_data_source_id", "Ok", data, NoAnswer,
                           compute_data_source_id(data), 0, 0)
        /\ UNCHANGED <<now, nodes, nodeAccounts, config, dataSource,
                       ethLinks, feed>>

IdCreateRequests ==
    {CreateRequest("Personal", 1, "cid", "ethA", id_matches, TRUE,
                   MIN_DURATION, 0, TRUE) : id_matches \in BOOLEAN}

NextIds ==
    \/ ComputeId(DataSourceInits)
    \/ CreateFeed(IdCreateRequests)

SpecIds == InitUnpriced /\ [][NextIds]_vars

IdComputed(l) == l.op = "compute_data_source_id"

\* C28: the identifier is a function of (kind, source, owner, name) only,
\* and two records that differ in any of these fields never give the same
\* bytes to the hash, hence never the same identifier; create_feed rejects
\* with InvalidDataSource a data_source_id that is not the identifier
\* computed from data_source_info.
C28_IdentifierIsInjective ==
    [][/\ (IdComputed(last) /\ IdComputed(last'))
          => (last'.batch = last.batch <=> last'.key = last.key)
       /\ (/\ last'.op = "create_feed"
           /\ ~feed.created
           /\ ~Args.id_matches)
          => (last'.err = "InvalidDataSource"
                 /\ UNCHANGED <<feed, dataSource, ethLinks>>)]_vars

\* C28 witness: two records that differ in source, owner and name were
\* given the same identifier, one after the other.
C28_Witness ==
    /\ IdComputed(last)
    /\ last.key.name = <<>>
    /\ Len(last.key.source) = MaxLen
    /\ \E data \in DataSourceInits :
           /\ data.source # last.key.source
           /\ data.owner_eth # last.key.owner_eth
           /\ data.name # last.key.name
           /\ compute_data_source_id(data) = last.batch

(***************************************************************************)
(* The typed-data digest of a data-source record and the verification of   *)
(* the owner's signature over it (utils/eip712.rs, utils.rs).  hashv of    *)
(* fixed-width pieces is held as the hash of their tuple.                  *)
(***************************************************************************)
DataSourceTypeHash ==
    Keccak("DataSource(uint8 type,string source,address owner,string name)")

\* the hardcoded DOMAIN_SEPARATOR
DomainSeparator == "0x91af22df...4143739f"

KindByte(data) == IF data.data_source_type = "Public" THEN 0 ELSE 1

\* a struct hash that takes the name before the source
build_struct_hash_name_first(data) ==
    Keccak(<<DataSourceTypeHash, KindByte(data), Keccak(data.name),
             data.owner_eth, Keccak(data.source)>>)

build_struct_hash(data) ==
    Keccak(<<DataSourceTypeHash, KindByte(data), Keccak(data.source),
             data.owner_eth, Keccak(data.name)>>)

build_digest(domain_separator, struct_hash) ==
    Keccak(<<"1901", domain_separator, struct_hash>>)

digest_data_source(data) ==
    build_digest(DomainSeparator, build_struct_hash(data))

\* verify_data_source_signature(data): data.sig is checked against the
\* digest of the record's own fields
verify_data_source_signature(data) ==
    LET recovered == RecoveredAddress(digest_data_source(data), data.sig)
    IN  IF recovered.err # "Ok" THEN recovered.err
        ELSE IF recovered.value # data.owner_eth
             THEN "RecoveredAddressMismatch"
        ELSE "Ok"

\* records with one-byte sources and names, owned by either key
DigestRecords ==
    [data_source_type : {"Public", "Private"}, source : ByteStrings(1),
     owner_eth : EthKeys, name : ByteStrings(1)]

\* the digest a foreign-chain signer computes for a record:
\* hash(0x1901 || domain_separator || struct_hash), with
\* struct_hash = hash(type_tag || kind || hash(source) || owner || hash(name))
SignerDigest(record) ==
    Keccak(<<"1901", DomainSeparator,
             Keccak(<<DataSourceTypeHash, KindByte(record),
                      Keccak(record.source), record.owner_eth,
                      Keccak(record.name)>>)>>)

\* the signature of key over the record
Sign(key, record) == Signature(key, SignerDigest(record))

\* signatures a caller can present: malformed bytes, and those of either
\* key over any record
DigestSignatures ==
    {MalformedSignature} \cup
    {Sign(k, r) : k \in EthKeys, r \in DigestRecords}

WithSig(record, sig) ==
    [data_source_type |-> record.data_source_type, source |-> record.source,
     owner_eth |-> record.owner_eth, name |-> record.name, sig |-> sig]

VerifyDataSourceSignature ==
    \E record \in DigestRecords, sig \in DigestSignatures :
        /\ last' = FeedOutcome("verify_data_source_signature",
                               verify_data_source_signature(
                                   WithSig(record, sig)),
                               [record |-> record, sig |-> sig])
        /\ UNCHANGED <<now, nodes, nodeAccounts, config, dataSource,
                       ethLinks, feed>>

NextDigest == VerifyDataSourceSignature

SpecDigest == InitUnpriced /\ [][NextDigest]_vars

Verified == last.op = "verify_data_source_signature"

\* C29: digest round trip: the signature of any key over the digest
\* hash(0x1901 || domain_separator || struct_hash(record)) of a record
\* recovers to that key's address, so verify_data_source_signature succeeds
\* exactly when the record's declared owner is the address of the signing
\* key; it fails with RecoveredAddressMismatch when the recovered address is
\* another one and with InvalidEthereumAddress when nothing can be
\* recovered.
C29_DigestRoundTrip ==
    Verified
        => LET record == last.key.record
               sig    == last.key.sig
           IN  /\ \A k \in EthKeys :
                      sig = Sign(k, record)
                          => /\ last.err = "Ok" <=> record.owner_eth = k
                             /\ record.owner_eth # k
                                    => last.err = "RecoveredAddressMismatch"
               /\ last.err = "Ok" => sig = Sign(record.owner_eth, record)
               /\ sig = MalformedSignature
                      <=> last.err = "InvalidEthereumAddress"
               /\ last.err \in {"Ok", "RecoveredAddressMismatch",
                                 "InvalidEthereumAddress"}

\* C29 witness: a Private record with a source and a name, signed by its
\* owner, was verified.
C29_Witness ==
    /\ Verified
    /\ last.err = "Ok"
    /\ last.key.record.data_source_type = "Private"
    /\ last.key.record.source # <<>>
    /\ last.key.record.name # <<>>
    /\ last.key.record.source # last.key.record.name
    /\ last.key.sig = Sign(last.key.record.owner_eth, last.key.record)

(***************************************************************************)
(* The two instruction parsers on the bytes of an instruction (utils.rs,   *)
(* utils/secp.rs).  An instruction's data is held as its length and the    *)
(* header fields the parsers read.                                         *)
(***************************************************************************)
HEADER_SIZE == 16

InstructionDatas ==
    [len : {8, 200}, num_signatures : 0..2, signature_offset : {16, 150},
     public_key_offset : {81, 180}, message_data_offset : {145, 190},
     message_data_size : {32, 64}]

\* parse_ed25519_instruction on the bytes: the header must be whole, the
\* count 1, and the 32-byte key and the message must lie within the data;
\* the signature offset is not read
Ed25519Parses(d) ==
    /\ ~(d.len < HEADER_SIZE \/ d.num_signatures # 1)
    /\ ~(\/ d.public_key_offset + 32 > d.len
         \/ d.message_data_offset + d.message_data_size > d.len)

\* the instruction the signer scan meets: signer and message are the bytes
\* at the declared offsets
Ed25519IxOf(d, signer, message) ==
    Ed25519Ix(d.num_signatures,
              Ed25519Parses([d EXCEPT !.num_signatures = 1]),
              signer, message)

\* parse_secp256k1_instruction_data: the header and the message are
\* checked; the slices data[signature_offset..signature_offset + 64],
\* data[signature_offset + 64] and data[public_key_offset..
\* public_key_offset + 64] are taken unchecked and panic out of bounds
parse_secp256k1_instruction_data(d) ==
    IF d.len < HEADER_SIZE THEN "InvalidSecp256k1Instruction"
    ELSE IF d.num_signatures # 1 THEN "InvalidSecp256k1Instruction"
    ELSE IF d.len < d.message_data_offset + d.message_data_size
         THEN "InvalidSecp256k1Instruction"
    ELSE IF d.signature_offset + 64 > d.len THEN "Panic"
    ELSE IF d.signature_offset + 64 >= d.len THEN "Panic"
    ELSE IF d.message_data_size # 32 THEN "InvalidSecp256k1Instruction"
    ELSE IF d.public_key_offset + 64 > d.len THEN "Panic"
    ELSE "Ok"

\* the signer scan of publish_answer meets one ed25519 instruction that
\* attests Value1 in the name of a registered node
ScanEd25519(datas) ==
    \E d \in datas, signer \in Range(nodes) :
        LET ix == Ed25519IxOf(d, signer, Value1)
            accepted == ScanStep(<<>>, ix, nodes, Value1)
        IN  /\ last' = Outcome("parse_ed25519_instruction",
                               IF parse_ed25519_instruction(ix).ok THEN "Ok"
                               ELSE "InvalidEd25519Instruction",
                               d, NoAnswer, <<ix>>, Len(accepted), 0)
            /\ UNCHANGED <<now, nodes, nodeAccounts, config, dataSource,
                           ethLinks, feed>>

ParseSecp256k1(datas) ==
    \E d \in datas :
        /\ last' = Outcome("parse_secp256k1_instruction_data",
                           parse_secp256k1_instruction_data(d),
                           d, NoAnswer, <<>>, 0, 0)
        /\ UNCHANGED <<now, nodes, nodeAccounts, config, dataSource,
                       ethLinks, feed>>

NextParsers ==
    \/ AddNode({Admin}, FeedNodeIds)
    \/ ScanEd25519(InstructionDatas)
    \/ ParseSecp256k1(InstructionDatas)

SpecParsers == InitUnpriced /\ [][NextParsers]_vars

\* a truncated header, a signature count other than 1, or an identity,
\* message or signature that runs past the end of the data (key_size is
\* 32 for Scheme A and 64 for Scheme B, where the recovery id follows the
\* signature)
Malformed(d, key_size, signature_size) ==
    \/ d.len < 16
    \/ d.num_signatures # 1
    \/ d.public_key_offset + key_size > d.len
    \/ d.message_data_offset + d.message_data_size > d.len
    \/ d.signature_offset + signature_size > d.len

\* C30: malformed attestations are skipped and never fatal: an attestation
\* with a truncated header, a signature count other than 1 or an identity,
\* message or signature offset that runs past the end of the data is
\* refused by the Scheme A parser and by the Scheme B parser with an error
\* the scan passes over, and adds nothing to the accepted signers.
C30_MalformedAttestationsSkipped ==
    /\ (last.op = "parse_ed25519_instruction" /\ Malformed(last.key, 32, 64))
          => (last.err = "InvalidEd25519Instruction" /\ last.count = 0)
    /\ (last.op = "parse_secp256k1_instruction_data"
            /\ Malformed(last.key, 64, 65))
          => last.err = "InvalidSecp256k1Instruction"

\* C30 witness: the Scheme B parser met an instruction with a whole header,
\* one signature and a 32-byte message within the data, whose signature
\* offset runs past the end.
C30_Witness ==
    /\ last.op = "parse_secp256k1_instruction_data"
    /\ last.key.len >= 16
    /\ last.key.num_signatures = 1
    /\ last.key.message_data_size = 32
    /\ last.key.message_data_offset + 32 <= last.key.len
    /\ last.key.signature_offset + 65 > last.key.len
    /\ last.err = "Panic"

(***************************************************************************)
(* SpecMetered: the priority fee of publish_answer.  Transactions declare  *)
(* their compute-unit price below and above 2^32, after a compute-unit     *)
(* limit, twice, or not at all, on feeds whose history grows to its        *)
(* capacity.                                                               *)
(***************************************************************************)
MeteredBids ==
    {<<>>,
     <<ComputeBudgetIx(3, 0, 200)>>,
     <<ComputeBudgetIx(3, 1, 200)>>,
     <<ComputeBudgetIx(3, 1, 0)>>,
     <<ComputeBudgetIx(2, 0, 400), ComputeBudgetIx(3, 0, 200)>>,
     <<ComputeBudgetIx(3, 0, 200), ComputeBudgetIx(3, 0, 400)>>}

MeteredBatches ==
    {bids \o Atts(<<1>>, Value1) : bids \in MeteredBids}
        \cup {Atts(<<1>>, Value1) \o bids : bids \in MeteredBids}

NextMetered ==
    \/ AddNode({Admin}, FeedNodeIds)
    \/ CreateFeed(FeedCreateRequests)
    \/ PublishAnswer(HistoryTimestamps, MeteredBatches)
    \/ Tick

SpecMetered == Init /\ [][NextMetered]_vars

\* the caller's declared compute-unit price: the first SetComputeUnitPrice
\* instruction of the transaction, as the two halves of its 64-bit value
RECURSIVE DeclaredBid(_)
DeclaredBid(batch) ==
    IF batch = <<>> THEN [hi |-> 0, lo |-> 0]
    ELSE IF Head(batch).program = "compute_budget" /\ Head(batch).tag = 3
         THEN [hi |-> Head(batch).price_hi, lo |-> Head(batch).price_lo]
    ELSE DeclaredBid(Tail(batch))

\* floor((hi * 2^32 + lo) * cu / 10^6) with 2^32 = 4294 * 10^6 + 967296,
\* evaluated without forming a product above 2^31
FullBidFee(hi, lo, cu) ==
    LET a == cu * 967
    IN  hi * cu * 4294 + hi * (a \div 1000)
          + ((hi * ((a % 1000) * 1000 + cu * 296) + lo * cu) \div 1000000)

\* the outcomes of a publish_answer that computed its fee
ReachedFee(err) ==
    err \in {"InsufficientPriorityFeeBudget", "NotEnoughSignatures",
             "InsufficientBalance", "Panic", "Ok"}

\* C31: the fee of publish_answer is floor(bid * cu / 10^6), bid being the
\* first declared compute-unit price of the transaction at its full 64-bit
\* value (0 if none) and cu = 5000 + 1000 * node_count + (500 if the
\* history holds fewer than 20 answers, else 200).
C31_FeeIsBidTimesComputeUnits ==
    [][(PublishStep /\ ReachedFee(last'.err))
          => last'.fee =
                 FullBidFee(DeclaredBid(last'.batch).hi,
                            DeclaredBid(last'.batch).lo,
                            5000 + 1000 * Len(nodes)
                              + (IF Len(feed.answer_history) < 20 THEN 500
                                 ELSE 200))]_vars

\* C31 witness: a publish whose transaction declares a compute-unit price
\* of 2^32 + 200 got as far as charging its fee.
C31_Witness ==
    /\ last.op = "publish_answer"
    /\ ReachedFee(last.err)
    /\ DeclaredBid(last.batch) = [hi |-> 1, lo |-> 200]

(***************************************************************************)
(* SpecPow: precise_pow applied to bases, exponents below, at and above    *)
(* one, and two scalars.                                                   *)
(***************************************************************************)
MaxBase == 4

PowInputs ==
    [base : 0..MaxBase, numerator : {0, 500, 999, 1000, 1001, 1500, 2000, 2147},
     denominator : {3, 700, 1000}, scalar : {SCALAR}]
      \cup
    [base : 0..MaxBase,
     numerator : {0, 5000, 10000, 10001, 19999, 20000, 30000},
     denominator : {10000}, scalar : {1000}]

PrecisePow(inputs) ==
    \E x \in inputs :
        LET r == precise_pow(x.base, x.numerator, x.denominator, x.scalar)
        IN  /\ last' = Outcome("precise_pow", r.err, x, NoAnswer, <<>>, 0,
                               r.value)
            /\ UNCHANGED <<now, nodes, nodeAccounts, config, dataSource,
                           ethLinks, feed>>

NextPow == PrecisePow(PowInputs)

SpecPow == InitUnpriced /\ [][NextPow]_vars

\* floor(numerator * scalar / denominator)
ScaledExponent(x) == (x.numerator * x.scalar) \div x.denominator

\* C32: precise_pow(base, numerator, denominator, scalar) returns base when
\* floor(numerator * scalar / denominator) <= scalar and otherwise
\* base * floor(floor(numerator * scalar / denominator) / scalar).
C32_PowIsLinearOrFlooredMultiple ==
    last.op = "precise_pow"
        => /\ last.err = "Ok"
           /\ last.fee = IF ScaledExponent(last.key) <= last.key.scalar
                         THEN last.key.base
                         ELSE last.key.base
                                * (ScaledExponent(last.key)
                                     \div last.key.scalar)

\* C32 witness: precise_pow was applied to base 3 with exponent 2 and
\* returned 6, not 9.
C32_Witness ==
    /\ last.op = "precise_pow"
    /\ last.key.base = 3
    /\ last.key.numerator = 2 * last.key.denominator
    /\ last.fee = 6

(***************************************************************************)
(* Claims about the feed's invariants.                                     *)
(***************************************************************************)
\* C33: the history write cursor designates a valid write position:
\* history_idx = answer_history.len() while the history holds fewer than 20
\* entries and history_idx is in 0..19 when it holds 20; a publish to a
\* feed with a full history that no check rejects is accepted.
C33_CursorIsValidWritePosition ==
    /\ Len(feed.answer_history) < MAX_HISTORY
          => feed.history_idx = Len(feed.answer_history)
    /\ Len(feed.answer_history) = MAX_HISTORY
          => feed.history_idx \in 0..(MAX_HISTORY - 1)
    /\ (/\ last.op = "publish_answer"
        /\ Len(feed.answer_history) = MAX_HISTORY
        /\ last.err \notin PublishRejections)
          => last.err = "Ok"

\* C33 witness: the twentieth accepted publish has filled the history.
C33_Witness ==
    /\ last.op = "publish_answer"
    /\ last.err = "Ok"
    /\ last.answer.timestamp = MAX_HISTORY
    /\ Len(feed.answer_history) = MAX_HISTORY

(***************************************************************************)
(* SpecBudget: feeds bought with no, a small and the largest priority-fee  *)
(* budget, extended, topped up and published to with bids that the         *)
(* allowance covers.                                                       *)
(***************************************************************************)
BudgetCreateRequests ==
    {CreateRequest("Personal", 1, "cid", "ethA", TRUE, TRUE, MIN_DURATION, b,
                   TRUE) : b \in {0, MaxBudget, HugeBudget}}

BudgetBatches ==
    {Bid(p) \o Atts(<<1>>, Value1) : p \in {0, 200, 2000}}

NextBudget ==
    \/ AddNode({Admin}, FeedNodeIds)
    \/ CreateFeed(BudgetCreateRequests)
    \/ ExtendSubscription({Owner}, {MIN_DURATION}, {0, MaxBudget}, BOOLEAN)
    \/ TopUp({Owner}, BOOLEAN)
    \/ PublishAnswer({now}, BudgetBatches)
    \/ Tick
    \/ DayPasses

SpecBudget == InitPriced /\ [][NextBudget]_vars

\* C34: in every reachable feed state balance >= priority_fee_allowance -
\* consumed_priority_fees, and therefore no publish_answer fails with
\* InsufficientBalance (the check that follows the priority-fee budget
\* check).
C34_BalanceCoversRemainingAllowance ==
    /\ feed.balance >= feed.priority_fee_allowance - feed.consumed_priority_fees
    /\ last.op = "publish_answer" => last.err # "InsufficientBalance"

\* C34 witness: a feed bought with the largest budget was published to
\* with a fee within the remaining allowance.
C34_Witness ==
    /\ feed.priority_fee_allowance = HugeBudget
    /\ last.op = "publish_answer"
    /\ last.fee > 0
    /\ feed.consumed_priority_fees + last.fee <= feed.priority_fee_allowance
    /\ last.err \in {"Ok", "InsufficientBalance"}

\* C35: a feed stays publishable after reconfiguration: a publish_answer to
\* an Active Personal feed, reconfigured or not, with a fresh timestamp,
\* attestations of at least threshold distinct registry members and a fee
\* within the allowance and the balance is accepted.
C35_ReconfiguredFeedStaysPublishable ==
    [][(/\ PublishStep
        /\ Active
        /\ feed.feed_type = "Personal"
        /\ FreshAnswer
        /\ Cardinality(DistinctMemberSigners(last'.batch, nodes,
                                             last'.answer.value))
               >= feed.min_signatures_threshold
        /\ feed.consumed_priority_fees + last'.fee
               <= feed.priority_fee_allowance
        /\ last'.fee <= feed.balance)
          => last'.err = "Ok"]_vars

\* C35 witness: an Active Personal feed whose frequency was changed by
\* update_feed_config was published to with a fresh answer attested by as
\* many members as its threshold asks for.
C35_Witness ==
    /\ last.op = "publish_answer"
    /\ feed.created /\ now < feed.subscription_due_time
    /\ feed.feed_type = "Personal"
    /\ feed.frequency = HalfDay
    /\ last.answer.timestamp > feed.latest_answer.timestamp
    /\ last.answer.timestamp <= now
    /\ Cardinality(DistinctMemberSigners(last.batch, nodes, last.answer.value))
           >= feed.min_signatures_threshold

\* C36: when create_feed creates the data source it refers to, the
\* Private-requires-EthLink gate follows the kind declared in
\* data_source_info: a first-reference create_feed for a Public data source
\* with a correct id and a valid owner signature, and without any EthLink,
\* succeeds and stores a data source of kind Public.
C36_LazyPublicDataSourceNeedsNoLink ==
    [][(/\ last'.op = "create_feed"
        /\ ~feed.created
        /\ dataSource.created_at = 0
        /\ Args.info.data_source_type = "Public"
        /\ Args.id_matches
        /\ Args.info.recovered = Args.info.owner_eth
        /\ ~Args.eth_link_passed
        /\ ethLinks = {}
        /\ Args.params.min_signatures_threshold > 0
        /\ Args.params.ipfs_cid # ""
        /\ Args.duration >= MIN_DURATION)
          => /\ last'.err = "Ok"
             /\ dataSource'.data_source_type = "Public"
             /\ dataSource'.created_at # 0]_vars

\* C36 witness: create_feed was called for a Public data source that did
\* not exist, with a valid record and no EthLink account, while no EthLink
\* existed.
C36_Witness ==
    /\ last.op = "create_feed"
    /\ last.key.info.data_source_type = "Public"
    /\ last.key.id_matches
    /\ last.key.info.recovered = last.key.info.owner_eth
    /\ ~last.key.eth_link_passed
    /\ ethLinks = {}
    /\ last.err = "InvalidDataSource"
    /\ dataSource.created_at = 0

\* C37: revocation is durable: once revoke_permit has removed the EthLink
\* of (owner_address, grantee), a permit that presents the owner signature
\* of the earlier permit again does not re-create the link.
C37_RevokedLinkNotRestoredByReplay ==
    [][(/\ last.op = "revoke_permit"
        /\ last.err = "Ok"
        /\ last'.op = "permit"
        /\ Args.owner_eth = last.key.owner_eth
        /\ Args.grantee = last.key.grantee
        /\ Args.sig = OwnerSignature("permit", Args.owner_eth, Args.grantee))
          => (last'.err # "Ok" /\ ethLinks' = ethLinks)]_vars

\* C37 witness: revoke_permit, signed by the owner, has just removed the
\* link of a pair.
C37_Witness ==
    /\ last.op = "revoke_permit"
    /\ last.err = "Ok"
    /\ last.key.sig = OwnerSignature("revoke_permit", last.key.owner_eth,
                                     last.key.grantee)
    /\ EthLinkAt(last.key.owner_eth, last.key.grantee) = {}

\* C38: attestations are bound to the answer they authorize: the batch of
\* attestations with which publish_answer has accepted (value, t1) does not
\* make a candidate with the same value and another timestamp acceptable,
\* and every accepted answer comes with attestations of at least threshold
\* distinct registry members.
C38_AttestationsBoundToAnswer ==
    [][/\ (/\ last.op = "publish_answer"
           /\ last.err = "Ok"
           /\ PublishStep
           /\ last'.batch = last.batch
           /\ last'.answer.value = last.answer.value
           /\ last'.answer.timestamp # last.answer.timestamp)
          => last'.err # "Ok"
       /\ (PublishStep /\ last'.err = "Ok")
          => Cardinality(DistinctMemberSigners(last'.batch, nodes,
                                               last'.answer.value))
                 >= feed.min_signatures_threshold]_vars

\* C38 witness: two answers with the same value and the timestamps 1 and 2
\* were submitted with the attestation of node 1, and the second one was
\* accepted.
C38_Witness ==
    /\ last.op = "publish_answer"
    /\ last.err = "Ok"
    /\ last.count >= 1
    /\ last.answer.timestamp = 2
    /\ Len(feed.answer_history) = 2
    /\ feed.answer_history[1].value = last.answer.value

(***************************************************************************)
(* SpecThreshold: feeds asked for and reconfigured with the thresholds 0,  *)
(* 1 and 2, and published to with no attestation, with attestations by     *)
(* members and by an identity that is not a member.                        *)
(***************************************************************************)
ThresholdCreateRequests ==
    {CreateRequest("Personal", t, "cid", "ethA", TRUE, TRUE, MIN_DURATION, 0,
                   TRUE) : t \in 0..2}

ThresholdBatches ==
    {<<>>, Atts(<<1>>, Value1), Atts(<<MaxNodeId + 1>>, Value1),
     Atts(<<1>>, Value2), Atts(<<1, MaxNodeId + 1>>, Value1)}

NextThreshold ==
    \/ AddNode({Admin}, FeedNodeIds)
    \/ RemoveNode({Admin}, FeedNodeIds)
    \/ CreateFeed(ThresholdCreateRequests)
    \/ UpdateFeedConfig({Owner}, UpdateParams(0, 2), {"checked"})
    \/ PublishAnswer({now}, ThresholdBatches)
    \/ Tick

SpecThreshold == Init /\ [][NextThreshold]_vars

\* C39: every feed has min_signatures_threshold >= 1, and every answer
\* stored in latest_answer or answer_history was published with at least
\* one attestation of it by an identity that was a registry member then.
C39_StoredAnswersWereAttested ==
    [][/\ feed'.created => feed'.min_signatures_threshold >= 1
       /\ (\/ feed'.latest_answer # feed.latest_answer
           \/ feed'.answer_history # feed.answer_history)
          => /\ PublishStep
             /\ last'.err = "Ok"
             /\ feed'.latest_answer = last'.answer
             /\ DistinctMemberSigners(last'.batch, nodes, last'.answer.value)
                    # {}]_vars

\* C39 witness: a feed of a priced protocol stores an answer that was
\* published with attestations of as many members as its threshold, which
\* is at least 1.
C39_Witness ==
    /\ last.op = "publish_answer"
    /\ last.err = "Ok"
    /\ feed.latest_answer = last.answer
    /\ feed.min_signatures_threshold >= 1
    /\ feed.price_per_second_scaled # 0
    /\ last.count >= feed.min_signatures_threshold

\* C40: an Expired feed (now >= subscription_due_time) becomes Active again
\* only through a successful extend_subscription: no other operation moves
\* subscription_due_time past the clock, and update_feed_config on an
\* Expired feed is rejected or leaves it Expired.
C40_OnlyExtensionRevivesExpiredFeed ==
    [][(/\ feed.created
        /\ now >= feed.subscription_due_time
        /\ now' < feed'.subscription_due_time)
          => (last'.op = "extend_subscription" /\ last'.err = "Ok")]_vars

\* C40 witness: update_feed_config has succeeded on a feed whose
\* subscription had lapsed, and the feed's due time is ahead of the clock.
C40_Witness ==
    /\ last.op = "update_feed_config"
    /\ last.err = "Ok"
    /\ feed.subscription_due_time = FarFuture
    /\ now < feed.subscription_due_time

=============================================================================
